---- MODULE Spec2Model ----
(***************************************************************************)
(* kg-diag: the position-tracking character reader (io/reader.rs), the     *)
(* number recogniser and converter (parse/num.rs), the diagnostics         *)
(* collector (multi.rs), quotes (io/mod.rs) and the display of             *)
(* diagnostics (diag.rs, detail.rs).                                       *)
(*                                                                         *)
(* Bytes and Unicode scalars are integers.  A reader is a record           *)
(*   [data, pos, c, len]  (the fields of MemCharReader; `path` plays no    *)
(* part in any operation modelled here) with two ghost fields:             *)
(*   past : the byte the process memory holds after the end of `data`      *)
(*          (what an unchecked read beyond the slice yields),              *)
(*   oob  : whether some read so far went to an index >= data.len().       *)
(***************************************************************************)
EXTENDS Integers, Sequences, FiniteSets, TLC

VARIABLES input, r, out, seen, cfg, tok, cv, val, diags, added

vars == <<input, r, out, seen, cfg, tok, cv, val, diags, added>>

(***************************************************************************)
(* Bounds of the model.                                                    *)
(***************************************************************************)
MaxLen == 2
MaxLook == 2
MaxOver == 1
MaxBody == 3

(***************************************************************************)
(* Bytes by name.                                                          *)
(***************************************************************************)
Byte == [LF |-> 10, SP |-> 32, A |-> 65, B |-> 66, Cont |-> 133,
         Lead2 |-> 196, Lead3 |-> 232, Lead4 |-> 240, Bad |-> 255]

\* EF BB BF, the UTF-8 byte order mark.
Bom == <<239, 187, 191>>

\* "\u{EF}\u{BB}\u{BF}".as_bytes(): the UTF-8 encoding of the three scalars
\* U+00EF U+00BB U+00BF, which is what consume_bom compares with.
BomLiteral == <<195, 175, 194, 187, 194, 191>>

\* F of the value of v.  v is evaluated once: TLC evaluates a LET definition
\* anew at each use when it records coverage, a bound variable never.
With(v, F(_)) == CHOOSE y \in {F(x) : x \in {v}} : TRUE

RECURSIVE SeqsUpTo(_, _)
SeqsUpTo(S, n) ==
    IF n = 0 THEN {<<>>}
    ELSE LET shorter == SeqsUpTo(S, n - 1)
         IN shorter \cup {Append(s, x) : s \in {t \in shorter : Len(t) = n - 1}, x \in S}

(***************************************************************************)
(* io/mod.rs: Position.                                                    *)
(***************************************************************************)
Position_new == [offset |-> 0, line |-> 0, column |-> 0]

inc_column(p) == [p EXCEPT !.column = @ + 1]

inc_line_keep(p) == [p EXCEPT !.column = 0]

inc_line(p) == [p EXCEPT !.line = @ + 1, !.column = 0]

\* #[derive(PartialOrd, Ord)] on Position compares offset, then line, then column.
LineColLeq(p, q) == p.line < q.line \/ (p.line = q.line /\ p.column <= q.column)

(***************************************************************************)
(* io/reader.rs: MemCharReader.                                            *)
(***************************************************************************)
consume_bom(in) ==
    IF Len(in) >= 6 /\ SubSeq(in, 1, 6) = BomLiteral
    THEN SubSeq(in, 7, Len(in))
    ELSE in

MemCharReader_new(in, past) ==
    [data |-> consume_bom(in), pos |-> Position_new, c |-> 0, len |-> 0,
     past |-> past, oob |-> FALSE]

\* data.get_unchecked(i): inside the slice the byte, beyond it whatever follows
\* the slice in memory.
get_unchecked(rd, i) == IF i < Len(rd.data) THEN rd.data[i + 1] ELSE rd.past

\* ghost: the reads at indices lo..hi have been made
Touch(rd, hi) == [rd EXCEPT !.oob = @ \/ hi >= Len(rd.data)]

NoErr == [tag |-> "Ok", offset |-> 0, len |-> 0]

\* an encoding error that reports the start of the buffer
encoding_err_at_start(rd, n) == [tag |-> "Utf8InvalidEncoding", offset |-> 0, len |-> n]

encoding_err(rd, n) == [tag |-> "Utf8InvalidEncoding", offset |-> rd.pos.offset, len |-> n]

eof_err(rd) == [tag |-> "Utf8UnexpectedEof", offset |-> rd.pos.offset, len |-> 0]

\* IoResult<Option<char>> (and IoResult<()> as "None")
Some(c) == [tag |-> "Some", c |-> c, offset |-> 0, len |-> 0]
None == [tag |-> "None", c |-> 0, offset |-> 0, len |-> 0]
Err(e) == [tag |-> e.tag, c |-> 0, offset |-> e.offset, len |-> e.len]
IsErr(res) == res.tag \in {"Utf8InvalidEncoding", "Utf8UnexpectedEof"}

\* stepping over the current scalar without forgetting it
Advance_keep_len(rd) ==
    IF rd.len > 0
    THEN LET p == [rd.pos EXCEPT !.offset = @ + rd.len]
         IN [rd EXCEPT !.pos = IF rd.c = Byte.LF THEN inc_line(p) ELSE inc_column(p)]
    ELSE rd

\* next(), lines 195-203: step over the scalar that was current
Advance(rd) ==
    IF rd.len > 0
    THEN LET p == [rd.pos EXCEPT !.offset = @ + rd.len]
         IN [rd EXCEPT !.pos = IF rd.c = Byte.LF THEN inc_line(p) ELSE inc_column(p),
                       !.len = 0]
    ELSE rd

\* next(), lines 205-256: decode the scalar at pos.offset
Decode(a) ==
    LET n == Len(a.data)
        i == a.pos.offset
    IN IF i = n THEN [r |-> a, err |-> NoErr]
       ELSE
       LET b  == get_unchecked(a, i)
           t0 == Touch(a, i)
           b1 == get_unchecked(a, i + 1)
           b2 == get_unchecked(a, i + 2)
           b3 == get_unchecked(a, i + 3)
       IN IF b < 128 THEN
              [r |-> [t0 EXCEPT !.len = 1, !.c = b], err |-> NoErr]
          ELSE IF b < 192 THEN
              [r |-> t0, err |-> encoding_err(t0, 1)]
          ELSE IF b < 224 THEN
              IF n < i + 1 THEN [r |-> t0, err |-> eof_err(t0)]
              ELSE [r |-> [Touch(t0, i + 1) EXCEPT
                             !.len = 2,
                             !.c = (b % 32) * 64 + (b1 % 64)],
                    err |-> NoErr]
          ELSE IF b < 240 THEN
              IF n < i + 2 THEN [r |-> t0, err |-> eof_err(t0)]
              ELSE [r |-> [Touch(t0, i + 2) EXCEPT
                             !.len = 3,
                             !.c = (b % 16) * 4096 + (b1 % 64) * 64 + (b2 % 64)],
                    err |-> NoErr]
          ELSE IF b <= 244 THEN
              IF n < i + 3 THEN [r |-> t0, err |-> eof_err(t0)]
              ELSE [r |-> [Touch(t0, i + 3) EXCEPT
                             !.len = 4,
                             !.c = (b % 8) * 262144 + (b1 % 64) * 4096
                                   + (b2 % 64) * 64 + (b3 % 64)],
                    err |-> NoErr]
          ELSE [r |-> t0, err |-> encoding_err(t0, 4)]

next(rd) == With(Advance(rd), Decode)

next_char(rd) ==
    With(next(rd), LAMBDA n :
        IF n.err.tag # "Ok" THEN [r |-> n.r, res |-> Err(n.err)]
        ELSE IF n.r.len > 0 THEN [r |-> n.r, res |-> Some(n.r.c)]
        ELSE [r |-> n.r, res |-> None])

position(rd) == rd.pos

seek(rd, p) == [rd EXCEPT !.pos = p, !.c = 0, !.len = 0]

\* the loop of peek_char / peek_char_pos over the clone
RECURSIVE PeekLoop(_, _)
PeekLoop(cl, k) ==
    IF k = 0 THEN [r |-> cl, res |-> Some(cl.c)]
    ELSE With(next_char(cl), LAMBDA n :
             IF IsErr(n.res) \/ n.res.tag = "None" THEN n
             ELSE PeekLoop(n.r, k - 1))

\* The clone is dropped: of its state only the ghost `oob` is kept.
peek_char(rd, k) ==
    IF k = 0
    THEN IF rd.len = 0 THEN next_char(rd) ELSE [r |-> rd, res |-> Some(rd.c)]
    ELSE With(PeekLoop(rd, k), LAMBDA l :
             [r |-> [rd EXCEPT !.oob = l.r.oob], res |-> l.res])

\* peek_char_pos: as peek_char, with the position of the scalar
peek_char_pos(rd, k) ==
    IF k = 0
    THEN IF rd.len = 0
         THEN With(next_char(rd), LAMBDA n : [r |-> n.r, res |-> n.res, pos |-> n.r.pos])
         ELSE [r |-> rd, res |-> Some(rd.c), pos |-> rd.pos]
    ELSE With(PeekLoop(rd, k), LAMBDA l :
             [r |-> [rd EXCEPT !.oob = l.r.oob], res |-> l.res, pos |-> l.r.pos])

\* a skip that loads the scalar at the position before it counts
RECURSIVE skip_chars_from_loaded(_, _)
skip_chars_from_loaded(rd, n) ==
    IF n = 0 THEN [r |-> rd, res |-> None]
    ELSE With(IF rd.len = 0 THEN next_char(rd).r ELSE rd, LAMBDA ld :
             With(next_char(ld), LAMBDA s :
                 IF IsErr(s.res) THEN s ELSE skip_chars_from_loaded(s.r, n - 1)))

RECURSIVE skip_chars(_, _)
skip_chars(rd, n) ==
    IF n = 0 THEN [r |-> rd, res |-> None]
    ELSE With(next_char(rd), LAMBDA s :
             IF IsErr(s.res) THEN s ELSE skip_chars(s.r, n - 1))


\* IoResult<bool>, and a panic (an index or an arithmetic check failing)
Bool(b) == [tag |-> "Bool", c |-> IF b THEN 1 ELSE 0, offset |-> 0, len |-> 0]
IsTrue(res) == res.tag = "Bool" /\ res.c = 1
Panic == [tag |-> "Panic", c |-> 0, offset |-> 0, len |-> 0]

\* data.len() - pos.offset underflows, or the slice index is out of range, when
\* the position lies beyond the buffer: a panic either way.
match_str(rd, s) ==
    IF rd.pos.offset > Len(rd.data) THEN [r |-> rd, res |-> Panic]
    ELSE IF Len(s) > Len(rd.data) - rd.pos.offset THEN [r |-> rd, res |-> Bool(FALSE)]
    ELSE [r |-> rd,
          res |-> Bool(SubSeq(rd.data, rd.pos.offset + 1, rd.pos.offset + Len(s)) = s)]

\* CharReader::match_char, the default method: peek_char(0) == Some(c)
match_char(rd, c) ==
    With(peek_char(rd, 0), LAMBDA pk :
        IF IsErr(pk.res) THEN pk
        ELSE [r |-> pk.r, res |-> Bool(pk.res.tag = "Some" /\ pk.res.c = c)])

\* the predicates a caller hands to match_str_term, by name
Holds(p, res) ==
    CASE p = "none_or_whitespace" -> res.tag = "None" \/ res.c \in {Byte.SP, Byte.LF}
      [] p = "is_some" -> res.tag = "Some"
      [] p = "is_A" -> res.tag = "Some" /\ res.c = Byte.A

\* the loop of match_str_term: the clone reads until it stands behind s
RECURSIVE TermLoop(_, _)
TermLoop(cl, e) ==
    IF cl.pos.offset < e
    THEN With(next_char(cl), LAMBDA n : IF IsErr(n.res) THEN n ELSE TermLoop(n.r, e))
    ELSE peek_char(cl, 0)

\* match_str_term over a clone, of which only the ghost `oob` is kept
match_str_term(rd, s, p) ==
    With(match_str(rd, s), LAMBDA m :
        IF ~IsTrue(m.res) THEN m
        ELSE With(TermLoop(rd, rd.pos.offset + Len(s)), LAMBDA t :
                 [r |-> [rd EXCEPT !.oob = t.r.oob],
                  res |-> IF IsErr(t.res) THEN t.res ELSE Bool(Holds(p, t.res))]))

(***************************************************************************)
(* parse/num.rs: the number recogniser.                                    *)
(* Characters by name; Sign and Notation are strings; `last` of            *)
(* parse_decimal is one of " ", "0", ".", "e", "-".                        *)
(***************************************************************************)
Ch == [sp |-> 32, plus |-> 43, minus |-> 45, dot |-> 46, d0 |-> 48, d1 |-> 49,
       d2 |-> 50, d3 |-> 51, d5 |-> 53, d6 |-> 54, d7 |-> 55, d8 |-> 56, d9 |-> 57, A |-> 65, E |-> 69, F |-> 70, us |-> 95,
       a |-> 97, b |-> 98, e |-> 101, f |-> 102, o |-> 111, x |-> 120]

PARSE_TASK_NAME == "paring a number literal"

Sign_len(sign) == IF sign = "None" THEN 0 ELSE 1

\* DecimalConfig::new, HexConfig::new, OctalConfig::new, BinaryConfig::new
DecimalConfig_new ==
    [kind |-> "decimal", enabled |-> TRUE, allow_minus |-> TRUE, allow_plus |-> TRUE,
     allow_underscores |-> TRUE, allow_float |-> TRUE, allow_exponent |-> TRUE,
     prefix |-> <<>>, case |-> "Any"]

HexConfig_new ==
    [kind |-> "hex", enabled |-> TRUE, allow_minus |-> TRUE, allow_plus |-> TRUE,
     allow_underscores |-> TRUE, allow_float |-> FALSE, allow_exponent |-> FALSE,
     prefix |-> <<Ch.d0, Ch.x>>, case |-> "Any"]

OctalConfig_new ==
    [kind |-> "octal", enabled |-> TRUE, allow_minus |-> TRUE, allow_plus |-> TRUE,
     allow_underscores |-> TRUE, allow_float |-> FALSE, allow_exponent |-> FALSE,
     prefix |-> <<Ch.d0, Ch.o>>, case |-> "Any"]

BinaryConfig_new ==
    [kind |-> "binary", enabled |-> TRUE, allow_minus |-> TRUE, allow_plus |-> TRUE,
     allow_underscores |-> TRUE, allow_float |-> FALSE, allow_exponent |-> FALSE,
     prefix |-> <<Ch.d0, Ch.b>>, case |-> "Any"]

NumberParser_new ==
    [decimal |-> DecimalConfig_new, hex |-> HexConfig_new,
     octal |-> OctalConfig_new, binary |-> BinaryConfig_new]

\* is_digit with the hex letters of either case, whatever the block's case
is_digit_any_case(n, c) ==
    CASE n.kind = "decimal" -> c >= Ch.d0 /\ c <= Ch.d9
      [] n.kind = "hex" ->
            (c >= Ch.d0 /\ c <= Ch.d9) \/ (c >= Ch.A /\ c <= Ch.F) \/ (c >= Ch.a /\ c <= Ch.f)
      [] n.kind = "octal" -> c >= Ch.d0 /\ c <= Ch.d7
      [] n.kind = "binary" -> c = Ch.d0 \/ c = Ch.d1

is_digit(n, c) ==
    CASE n.kind = "decimal" -> c >= Ch.d0 /\ c <= Ch.d9
      [] n.kind = "hex" ->
            (c >= Ch.d0 /\ c <= Ch.d9)
            \/ (CASE n.case = "Any" -> (c >= Ch.A /\ c <= Ch.F) \/ (c >= Ch.a /\ c <= Ch.f)
                  [] n.case = "Upper" -> c >= Ch.A /\ c <= Ch.F
                  [] n.case = "Lower" -> c >= Ch.a /\ c <= Ch.f)
      [] n.kind = "octal" -> c >= Ch.d0 /\ c <= Ch.d7
      [] n.kind = "binary" -> c = Ch.d0 \/ c = Ch.d1

get_notation(n) ==
    CASE n.kind = "decimal" -> "Decimal"
      [] n.kind = "hex" -> "Hex"
      [] n.kind = "octal" -> "Octal"
      [] n.kind = "binary" -> "Binary"

get_task_name(n) ==
    CASE n.kind = "decimal" -> "parsing a decimal number literal"
      [] n.kind = "hex" -> "parsing a hexadecimal number literal"
      [] n.kind = "octal" -> "parsing an octal number literal"
      [] n.kind = "binary" -> "parsing a binary number literal"

\* Expected: [k, a, b] with k the variant; the derived Ord compares the variant
\* (Byte < ByteRange < Char < CharRange < ...), then the fields.
ExpChar(c) == [k |-> "Char", a |-> c, b |-> c]
ExpCharRange(a, b) == [k |-> "CharRange", a |-> a, b |-> b]
ExpRank(e) == IF e.k = "Char" THEN 2 ELSE 3
ExpLess(e, g) ==
    \/ ExpRank(e) < ExpRank(g)
    \/ (ExpRank(e) = ExpRank(g) /\ (e.a < g.a \/ (e.a = g.a /\ e.b < g.b)))

RECURSIVE ExpInsert(_, _)
ExpInsert(sorted, e) ==
    IF sorted = <<>> THEN <<e>>
    ELSE IF ExpLess(e, Head(sorted)) THEN <<e>> \o sorted
    ELSE <<Head(sorted)>> \o ExpInsert(Tail(sorted), e)

RECURSIVE ExpSort(_)
ExpSort(es) == IF es = <<>> THEN <<>> ELSE ExpInsert(ExpSort(Tail(es)), Head(es))

\* one_of without the sort
one_of_unsorted(elems) ==
    IF Len(elems) = 1 THEN elems[1] ELSE [k |-> "OneOf", items |-> elems]

\* Expected::one_of
one_of(elems) ==
    IF Len(elems) = 1 THEN elems[1] ELSE [k |-> "OneOf", items |-> ExpSort(elems)]

get_expected_digit(n) ==
    CASE n.kind = "decimal" -> ExpCharRange(Ch.d0, Ch.d9)
      [] n.kind = "hex" ->
            (CASE n.case = "Any" ->
                    [k |-> "OneOf", items |-> <<ExpCharRange(Ch.d0, Ch.d9),
                        ExpCharRange(Ch.A, Ch.F), ExpCharRange(Ch.a, Ch.f)>>]
               [] n.case = "Lower" ->
                    [k |-> "OneOf", items |-> <<ExpCharRange(Ch.d0, Ch.d9),
                        ExpCharRange(Ch.a, Ch.f)>>]
               [] n.case = "Upper" ->
                    [k |-> "OneOf", items |-> <<ExpCharRange(Ch.d0, Ch.d9),
                        ExpCharRange(Ch.A, Ch.F)>>])
      [] n.kind = "octal" -> ExpCharRange(Ch.d0, Ch.d7)
      [] n.kind = "binary" -> ExpCharRange(Ch.d0, Ch.d1)

NoExpected == [k |-> "None"]

\* ParseResult<LexToken<Number>>
\* a token whose span starts at the start of the text
TokOk_from_origin(sign, notation, p1, p2) ==
    [tag |-> "Ok", sign |-> sign, notation |-> notation,
     span |-> [start |-> Position_new, end |-> p2]]

TokOk(sign, notation, p1, p2) ==
    [tag |-> "Ok", sign |-> sign, notation |-> notation, span |-> [start |-> p1, end |-> p2]]
UnexpectedInput(pos, c, expected, task) ==
    [tag |-> "UnexpectedInput", pos |-> pos, found |-> c, expected |-> expected, task |-> task]
UnexpectedEof(pos, expected, task) ==
    [tag |-> "UnexpectedEof", pos |-> pos, expected |-> expected, task |-> task]
Io(res) == [tag |-> "Io", err |-> res]

\* Position's derived Ord: offset, then line, then column
PosGt(p, q) ==
    \/ p.offset > q.offset
    \/ (p.offset = q.offset /\ (p.line > q.line \/ (p.line = q.line /\ p.column > q.column)))

\* the error both parse_simple_num and parse_decimal end with
Unexpected(rd, pos, expected, task) ==
    With(peek_char(rd, 0), LAMBDA pk :
        IF IsErr(pk.res) THEN [r |-> pk.r, tok |-> Io(pk.res)]
        ELSE IF pk.res.tag = "Some"
        THEN [r |-> pk.r, tok |-> UnexpectedInput(pos, pk.res.c, expected, task)]
        ELSE [r |-> pk.r, tok |-> UnexpectedEof(pos, expected, task)])

\* CharReader::skip_while(|c| n.is_digit(c))
RECURSIVE skip_while_digit(_, _)
skip_while_digit(n, rd) ==
    With(peek_char(rd, 0), LAMBDA pk :
        IF pk.res.tag # "Some" THEN pk
        ELSE IF is_digit(n, pk.res.c)
        THEN With(next_char(pk.r), LAMBDA nx :
                 IF IsErr(nx.res) THEN nx ELSE skip_while_digit(n, nx.r))
        ELSE [r |-> pk.r, res |-> None])

\* parse_simple_num, the loop of lines 105-117
RECURSIVE DigitRun(_, _, _)
DigitRun(n, rd, digit) ==
    With(peek_char(rd, 0), LAMBDA pk :
        IF pk.res.tag # "Some" THEN pk
        ELSE LET c == pk.res.c
             IN IF (c = Ch.us /\ ~digit) \/ (c # Ch.us /\ ~is_digit(n, c))
                THEN [r |-> pk.r, res |-> None]
                ELSE With(next_char(pk.r), LAMBDA nx :
                         IF IsErr(nx.res) THEN nx
                         ELSE With(digit \/ c # Ch.us, LAMBDA dg : DigitRun(n, nx.r, dg))))

SignAllowed(n, sign) ==
    sign = "None" \/ (sign = "Minus" /\ n.allow_minus) \/ (sign = "Plus" /\ n.allow_plus)

\* parse_simple_num, lines 96-119: the reader after the scan, with p
SimpleScan(n, sign, rd) ==
    IF ~SignAllowed(n, sign) THEN [r |-> rd, res |-> None, p |-> position(rd)]
    ELSE
    With(IF sign # "None" THEN skip_chars(rd, 1) ELSE [r |-> rd, res |-> None], LAMBDA s1 :
        IF IsErr(s1.res) THEN [r |-> s1.r, res |-> s1.res, p |-> position(rd)]
        ELSE
        With(skip_chars(s1.r, Len(n.prefix)), LAMBDA s2 :
            IF IsErr(s2.res) THEN [r |-> s2.r, res |-> s2.res, p |-> position(rd)]
            ELSE
            With(IF ~n.allow_underscores THEN skip_while_digit(n, s2.r)
                 ELSE DigitRun(n, s2.r, FALSE), LAMBDA s3 :
                [r |-> s3.r, res |-> s3.res, p |-> position(s2.r)])))

parse_simple_num(n, sign, rd) ==
    With(SimpleScan(n, sign, rd), LAMBDA b :
        LET p1 == position(rd)
            p2 == position(b.r)
        IN IF IsErr(b.res) THEN [r |-> b.r, tok |-> Io(b.res)]
           ELSE IF PosGt(p2, b.p)
           THEN [r |-> b.r, tok |-> TokOk(sign, get_notation(n), p1, p2)]
           ELSE Unexpected(b.r, p2, get_expected_digit(n), get_task_name(n)))

\* parse_decimal, the loop of lines 232-256
\* a digit after an exponent marker leaves the notation as it was
notation_after_digit_no_exponent(notation, last) ==
    CASE last = " " -> "Decimal"
      [] last = "." -> "Float"
      [] OTHER -> notation

\* parse_decimal, lines 234-240: the notation once a digit follows `last`
notation_after_digit(notation, last) ==
    CASE last = " " -> "Decimal"
      [] last = "." -> "Float"
      [] last \in {"e", "-"} -> "Exponent"
      [] last = "0" -> notation

\* The result carries a ghost `hist`: the notation on entry and after every
\* character the loop consumes from there on.
RECURSIVE DecimalRun(_, _, _, _)
DecimalRun(d, rd, notation, last) ==
    With(peek_char(rd, 0), LAMBDA pk :
       IF pk.res.tag # "Some"
       THEN [r |-> pk.r, res |-> pk.res, notation |-> notation, last |-> last,
             hist |-> <<notation>>]
       ELSE
       LET c == pk.res.c
           Step(nt, la) ==
               With(next_char(pk.r), LAMBDA nx :
                   IF IsErr(nx.res)
                   THEN [r |-> nx.r, res |-> nx.res, notation |-> nt, last |-> la,
                         hist |-> <<notation, nt>>]
                   ELSE With(<<nt, la>>, LAMBDA st :
                            With(DecimalRun(d, nx.r, st[1], st[2]), LAMBDA run :
                                [run EXCEPT !.hist = <<notation>> \o @])))
       IN IF is_digit(d, c) THEN
              Step(notation_after_digit(notation, last), "0")
          ELSE IF c = Ch.us /\ d.allow_underscores /\ last \in {"0", "e", "-"} THEN
              Step(notation, last)
          ELSE IF c = Ch.dot /\ d.allow_float /\ last = "0" /\ notation = "Decimal" THEN
              Step(notation, ".")
          ELSE IF /\ (c = Ch.e /\ d.case # "Upper") \/ (c = Ch.E /\ d.case # "Lower")
                  /\ d.allow_exponent /\ last = "0" /\ notation # "Exponent" THEN
              Step(notation, "e")
          ELSE IF (c = Ch.minus \/ c = Ch.plus) /\ last = "e" THEN
              Step(notation, "-")
          ELSE [r |-> pk.r, res |-> None, notation |-> notation, last |-> last,
                hist |-> <<notation>>])

\* parse_decimal, lines 267-269: the position one column before p2
retract_none(p2) == p2

retract(p2) == [p2 EXCEPT !.offset = @ - 1, !.column = @ - 1]

\* parse_decimal, lines 277-302
\* the expected set that offers the signs whether or not one was read
DecimalExpected_signs(d, sign, last) ==
    one_of(<<ExpChar(Ch.minus), ExpChar(Ch.plus), ExpCharRange(Ch.d0, Ch.d9)>>)

DecimalExpected(d, sign, last) ==
    CASE last \in {" ", "."} ->
            one_of((IF sign = "None" /\ d.allow_minus THEN <<ExpChar(Ch.minus)>> ELSE <<>>)
                   \o (IF sign = "None" /\ d.allow_plus THEN <<ExpChar(Ch.plus)>> ELSE <<>>)
                   \o <<ExpCharRange(Ch.d0, Ch.d9)>>)
      [] last = "e" ->
            IF d.allow_underscores
            THEN one_of(<<ExpCharRange(Ch.d0, Ch.d9), ExpChar(Ch.us),
                          ExpChar(Ch.minus), ExpChar(Ch.plus)>>)
            ELSE one_of(<<ExpCharRange(Ch.d0, Ch.d9), ExpChar(Ch.minus), ExpChar(Ch.plus)>>)
      [] last = "-" ->
            IF d.allow_underscores
            THEN one_of(<<ExpCharRange(Ch.d0, Ch.d9), ExpChar(Ch.us)>>)
            ELSE ExpCharRange(Ch.d0, Ch.d9)

\* parse_decimal, lines 227-257: the reader after the scan, with notation and last
DecimalScan(d, sign, rd) ==
    IF ~SignAllowed(d, sign)
    THEN [r |-> rd, res |-> None, notation |-> "NoNotation", last |-> " ",
          hist |-> <<"NoNotation">>]
    ELSE
    With(IF sign # "None" THEN skip_chars(rd, 1) ELSE [r |-> rd, res |-> None], LAMBDA s1 :
        IF IsErr(s1.res)
        THEN [r |-> s1.r, res |-> s1.res, notation |-> "NoNotation", last |-> " ",
              hist |-> <<"NoNotation">>]
        ELSE DecimalRun(d, s1.r, "NoNotation", " "))

NumberParser_parse_decimal(d, sign, rd) ==
    With(DecimalScan(d, sign, rd), LAMBDA b :
        LET p1 == position(rd)
            p2 == position(b.r)
        IN IF IsErr(b.res) THEN [r |-> b.r, tok |-> Io(b.res)]
           ELSE IF b.notation # "NoNotation" /\ b.last = "0"
           THEN [r |-> b.r, tok |-> TokOk(sign, b.notation, p1, p2)]
           ELSE IF b.notation # "NoNotation" /\ b.last = "."
           THEN [r |-> seek(b.r, retract(p2)),
                 tok |-> TokOk(sign, b.notation, p1, retract(p2))]
           ELSE Unexpected(b.r, p2, DecimalExpected(d, sign, b.last), get_task_name(d)))

\* NotationConfig::is_at_start, lines 402-412
is_at_prefix_or_digit(n, rd) ==
    IF n.prefix = <<>>
    THEN With(peek_char(rd, 0), LAMBDA pk :
             IF IsErr(pk.res) THEN pk
             ELSE [r |-> pk.r, res |-> Bool(pk.res.tag = "Some" /\ is_digit(n, pk.res.c))])
    ELSE match_str(rd, n.prefix)

\* NotationConfig::is_at_start (hex, octal, binary) and DecimalConfig's override
is_at_start(n, rd) ==
    IF ~n.enabled THEN [r |-> rd, res |-> Bool(FALSE)]
    ELSE With(peek_char(rd, 0), LAMBDA pk :
            IF IsErr(pk.res) THEN pk
            ELSE IF pk.res.tag # "Some" THEN [r |-> pk.r, res |-> Bool(FALSE)]
            ELSE
            LET c == pk.res.c
                signed == (c = Ch.minus /\ n.allow_minus) \/ (c = Ch.plus /\ n.allow_plus)
            IN IF n.kind = "decimal" THEN [r |-> pk.r, res |-> Bool(signed \/ is_digit(n, c))]
               ELSE IF signed THEN
                   With(skip_chars(pk.r, 1), LAMBDA sk :
                       IF IsErr(sk.res) THEN sk
                       ELSE With(is_at_prefix_or_digit(n, sk.r), LAMBDA at :
                                [r |-> seek(at.r, position(pk.r)), res |-> at.res]))
               ELSE is_at_prefix_or_digit(n, pk.r))

Stopped(res) == IsErr(res) \/ res.tag = "Panic"

\* parse_number, lines 184-206: the notations are tried in the order of `ns`
RECURSIVE Dispatch(_, _, _)
Dispatch(ns, sign, rd) ==
    IF ns = <<>> THEN Unexpected(rd, position(rd), NoExpected, PARSE_TASK_NAME)
    ELSE With(is_at_start(Head(ns), rd), LAMBDA at :
             IF Stopped(at.res) THEN [r |-> at.r, tok |-> Io(at.res)]
             ELSE IF IsTrue(at.res)
             THEN (IF Head(ns).kind = "decimal"
                   THEN NumberParser_parse_decimal(Head(ns), sign, at.r)
                   ELSE parse_simple_num(Head(ns), sign, at.r))
             ELSE Dispatch(Tail(ns), sign, at.r))

\* the notations with decimal tried first
NotationOrder_decimal_first(np) == <<np.decimal, np.hex, np.octal, np.binary>>

NotationOrder(np) == <<np.hex, np.octal, np.binary, np.decimal>>

parse_number(np, rd) ==
    With(peek_char(rd, 0), LAMBDA pk :
        LET sign == IF pk.res.tag = "Some" /\ pk.res.c = Ch.minus THEN "Minus"
                    ELSE IF pk.res.tag = "Some" /\ pk.res.c = Ch.plus THEN "Plus"
                    ELSE "None"
        IN IF IsErr(pk.res) THEN [r |-> pk.r, tok |-> Io(pk.res)]
           ELSE IF pk.res.tag = "None"
           THEN [r |-> pk.r,
                 tok |-> UnexpectedEof(position(pk.r), NoExpected, PARSE_TASK_NAME)]
           ELSE Dispatch(NotationOrder(np), sign, pk.r))

(***************************************************************************)
(* Specification Spec: one MemCharReader over a buffer, driven by any      *)
(* sequence of next_char / peek_char / peek_char_pos / skip_chars / seek.  *)
(*   input : the bytes handed to MemCharReader::new                        *)
(*   r     : the reader                                                    *)
(*   out   : the last call and what it returned                            *)
(*   seen  : every position the caller has observed so far, through       *)
(*           position() after a call or through peek_char_pos              *)
(***************************************************************************)
Alphabet == {Byte.A, Byte.LF, Byte.Cont, Byte.Lead2, Byte.Lead3, Byte.Bad}

\* Inputs beyond the short ones: with a byte order mark, with the six bytes
\* consume_bom looks for, a four-byte scalar whole and cut short, a three-byte
\* scalar, and the bytes 41 42 FF of tests::char_reader_errors.
ExtraInputs ==
    {Bom \o s : s \in SeqsUpTo({Byte.A, Byte.LF}, 1)}
    \cup {BomLiteral \o s : s \in SeqsUpTo({Byte.A}, 1)}
    \cup {<<240, 159, 152, 128>>, <<240, 159>>, <<232, 128, 129, 65>>,
          <<65, 66, 255>>, <<196, 133, 10, 65>>, <<65, 10, 65>>, <<65, 65, 10, 65>>,
          <<196, 133, 255>>}

Inputs == SeqsUpTo(Alphabet, MaxLen) \cup ExtraInputs

\* What memory may hold after the buffer.
PastBytes == {Byte.A, Byte.LF, Byte.Cont}

NoCfg == [none |-> TRUE]
NoTok == [tag |-> "none"]
NoCv == [none |-> TRUE]
NoVal == [tag |-> "none"]
NoDiags == [none |-> TRUE]

Call(op, res, pos) == [op |-> op, res |-> res, pos |-> pos]

Init ==
    /\ input \in Inputs
    /\ \E past \in PastBytes : r = MemCharReader_new(input, past)
    /\ out = Call("new", None, Position_new)
    /\ seen = {Position_new}
    /\ cfg = NoCfg /\ tok = NoTok /\ cv = NoCv /\ val = NoVal
    /\ diags = NoDiags /\ added = <<>>

\* Reads beyond the buffer never meet the end of input again: the model follows
\* them MaxOver bytes far.
Live == r.pos.offset <= Len(r.data) + MaxOver

NextChar ==
    /\ Live
    /\ LET n == next_char(r)
       IN /\ r' = n.r
          /\ out' = Call("next_char", n.res, position(n.r))
          /\ seen' = seen \cup {position(n.r)}
    /\ UNCHANGED <<input, cfg, tok, cv, val, diags, added>>

PeekChar ==
    /\ Live
    /\ \E k \in 0..MaxLook :
         LET n == peek_char(r, k)
         IN /\ r' = n.r
            /\ out' = Call("peek_char", n.res, position(n.r))
            /\ seen' = seen \cup {position(n.r)}
    /\ UNCHANGED <<input, cfg, tok, cv, val, diags, added>>

PeekCharPos ==
    /\ Live
    /\ \E k \in 0..MaxLook :
         LET n == peek_char_pos(r, k)
         IN /\ r' = n.r
            /\ out' = Call("peek_char_pos", n.res, n.pos)
            /\ seen' = seen \cup {position(n.r)}
                            \cup (IF n.res.tag = "Some" THEN {n.pos} ELSE {})
    /\ UNCHANGED <<input, cfg, tok, cv, val, diags, added>>

SkipChars ==
    /\ Live
    /\ \E k \in 1..MaxLook :
         LET n == skip_chars(r, k)
         IN /\ r' = n.r
            /\ out' = Call("skip_chars", n.res, position(n.r))
            /\ seen' = seen \cup {position(n.r)}
    /\ UNCHANGED <<input, cfg, tok, cv, val, diags, added>>

Seek ==
    /\ \E p \in seen :
         /\ r' = seek(r, p)
         /\ out' = Call("seek", None, p)
    /\ UNCHANGED <<input, seen, cfg, tok, cv, val, diags, added>>

Next == NextChar \/ PeekChar \/ PeekCharPos \/ SkipChars \/ Seek

Spec == Init /\ [][Next]_vars


(***************************************************************************)
(* Well-formed UTF-8 (Unicode 15, table 3-7), the reference the claims     *)
(* about decoding are stated against: what std::str::from_utf8 accepts     *)
(* and the scalars it yields.                                              *)
(***************************************************************************)
IsCont(b) == b >= 128 /\ b < 192

\* the number of bytes of the well-formed scalar at index i (1-based), 0 if none
Utf8Width(bs, i) ==
    LET n == Len(bs)
        b == bs[i]
        In(k, lo, hi) == i + k <= n /\ bs[i + k] >= lo /\ bs[i + k] <= hi
    IN IF b < 128 THEN 1
       ELSE IF b >= 194 /\ b <= 223 THEN (IF In(1, 128, 191) THEN 2 ELSE 0)
       ELSE IF b = 224 THEN (IF In(1, 160, 191) /\ In(2, 128, 191) THEN 3 ELSE 0)
       ELSE IF b = 237 THEN (IF In(1, 128, 159) /\ In(2, 128, 191) THEN 3 ELSE 0)
       ELSE IF b >= 225 /\ b <= 239 THEN (IF In(1, 128, 191) /\ In(2, 128, 191) THEN 3 ELSE 0)
       ELSE IF b = 240 THEN
           (IF In(1, 144, 191) /\ In(2, 128, 191) /\ In(3, 128, 191) THEN 4 ELSE 0)
       ELSE IF b >= 241 /\ b <= 243 THEN
           (IF In(1, 128, 191) /\ In(2, 128, 191) /\ In(3, 128, 191) THEN 4 ELSE 0)
       ELSE IF b = 244 THEN
           (IF In(1, 128, 143) /\ In(2, 128, 191) /\ In(3, 128, 191) THEN 4 ELSE 0)
       ELSE 0

Utf8Value(bs, i, w) ==
    IF w = 1 THEN bs[i]
    ELSE IF w = 2 THEN (bs[i] - 192) * 64 + (bs[i + 1] - 128)
    ELSE IF w = 3 THEN (bs[i] - 224) * 4096 + (bs[i + 1] - 128) * 64 + (bs[i + 2] - 128)
    ELSE (bs[i] - 240) * 262144 + (bs[i + 1] - 128) * 4096
         + (bs[i + 2] - 128) * 64 + (bs[i + 3] - 128)

RECURSIVE Utf8ValidFrom(_, _)
Utf8ValidFrom(bs, i) ==
    i > Len(bs) \/ (Utf8Width(bs, i) > 0 /\ Utf8ValidFrom(bs, i + Utf8Width(bs, i)))

Utf8Valid(bs) == Utf8ValidFrom(bs, 1)

\* the text of a valid input, as its scalars
RECURSIVE Utf8DecodeFrom(_, _)
Utf8DecodeFrom(bs, i) ==
    IF i > Len(bs) THEN <<>>
    ELSE <<Utf8Value(bs, i, Utf8Width(bs, i))>> \o Utf8DecodeFrom(bs, i + Utf8Width(bs, i))

Utf8Decode(bs) == Utf8DecodeFrom(bs, 1)

\* the bytes a scalar starting with lead byte b takes (0: b starts none)
LeadWidth(b) ==
    IF b < 128 THEN 1
    ELSE IF b < 192 THEN 0
    ELSE IF b < 224 THEN 2
    ELSE IF b < 240 THEN 3
    ELSE IF b <= 244 THEN 4
    ELSE 0

(***************************************************************************)
(* What a caller sees of a reader: the results of successive next_char     *)
(* calls with the position after each, up to and including the first None  *)
(* or error (at most `fuel` calls).                                        *)
(***************************************************************************)
RECURSIVE Stream(_, _)
Stream(rd, fuel) ==
    IF fuel = 0 THEN <<>>
    ELSE With(next_char(rd), LAMBDA n :
             <<[res |-> n.res, pos |-> position(n.r)]>>
             \o (IF n.res.tag = "Some" THEN Stream(n.r, fuel - 1) ELSE <<>>))

\* the scalars of successive next_char calls up to the first None (or error)
RECURSIVE Scalars(_, _)
Scalars(rd, fuel) ==
    IF fuel = 0 THEN <<>>
    ELSE With(next_char(rd), LAMBDA n :
             IF n.res.tag = "Some" THEN <<n.res.c>> \o Scalars(n.r, fuel - 1) ELSE <<>>)

(***************************************************************************)
(* Claims about the reader, under Spec.                                    *)
(***************************************************************************)

\* C3 (as claimed): seek idempotence.  In every state a reader is in after any
\* sequence of calls, with p = position(): next_char(); seek(p); next_char()
\* returns the same scalar from both next_char calls.
C3_SeekIdempotence ==
    LET p == position(r)
        a == next_char(r)
        s == seek(a.r, p)
        b == next_char(s)
    IN a.res = b.res

\* C6 (as claimed): BOM suppression.  A reader over EF BB BF | rest exposes the
\* same next_char results and positions as a reader over rest.
C6_BomSuppression ==
    (Len(input) >= 3 /\ SubSeq(input, 1, 3) = Bom) =>
        LET rest == SubSeq(input, 4, Len(input))
        IN Stream(MemCharReader_new(input, r.past), Len(input) + 1)
           = Stream(MemCharReader_new(rest, r.past), Len(input) + 1)

\* C7 (as claimed): UTF-8 round trip.  For a valid UTF-8 input the scalars of
\* successive next_char calls on a fresh reader, up to the first None, are the
\* input decoded as text.
C7_Utf8RoundTrip ==
    Utf8Valid(input) =>
        Scalars(MemCharReader_new(input, r.past), Len(input) + 1) = Utf8Decode(input)

\* C8: positional monotonicity.  For any two positions p, q observed from the
\* reader (position() after a call, or the position peek_char_pos returned):
\* p.offset <= q.offset exactly when (p.line, p.column) <= (q.line, q.column).
C8_PositionalMonotonicity ==
    \A p \in seen : \A q \in seen : (p.offset <= q.offset) <=> LineColLeq(p, q)

\* C8 witness: peek_char_pos has returned a position on a later line and at a
\* smaller column than a position observed before.
C8_Witness ==
    /\ out.op = "peek_char_pos"
    /\ out.res.tag = "Some"
    /\ \E p \in seen : p.offset < out.pos.offset /\ p.line < out.pos.line
                       /\ out.pos.column < p.column

\* C9 (as claimed): a buffer that ends inside a multi-byte scalar.  When
\* next_char has been called with the reader at a lead byte of a 2-, 3- or
\* 4-byte scalar and fewer trailing bytes than it needs are left, it returned an
\* error, and no read went to an index >= the buffer length.
C9_TruncatedScalarIsError ==
    (/\ out.op = "next_char"
     /\ r.pos.offset < Len(r.data)
     /\ LeadWidth(r.data[r.pos.offset + 1]) >= 2
     /\ r.pos.offset + LeadWidth(r.data[r.pos.offset + 1]) > Len(r.data))
    => (IsErr(out.res) /\ ~r.oob)

\* C10 (as claimed): a multi-byte lead byte followed by a byte that is no
\* continuation byte.  When next_char has been called with the reader at such a
\* lead byte, it returned Utf8InvalidEncoding (and so no scalar).
C10_BadContinuationIsError ==
    (/\ out.op = "next_char"
     /\ r.pos.offset + 1 < Len(r.data)
     /\ LeadWidth(r.data[r.pos.offset + 1]) >= 2
     /\ ~IsCont(r.data[r.pos.offset + 2]))
    => out.res.tag = "Utf8InvalidEncoding"


\* C11 (as claimed): peek_char(k) is the k-th scalar counted from the scalar at
\* the current position, or None when fewer than k + 1 scalars remain, in every
\* state of a reader over a valid text.
C11_PeekKthScalar ==
    (Utf8Valid(r.data) /\ r.pos.offset <= Len(r.data)) =>
        \A k \in 0..MaxLook :
            LET rest == Utf8DecodeFrom(r.data, r.pos.offset + 1)
            IN peek_char(r, k).res = IF k < Len(rest) THEN Some(rest[k + 1]) ELSE None

\* C22: when the byte at offset k of the reader's buffer is greater than
\* 0xF4 and the bytes before it are whole scalars, the reads of a fresh reader
\* return each of those scalars and the next read fails with
\* Utf8InvalidEncoding, offset k and len 4.
C22_BadLeadByteError ==
    LET st == Stream(MemCharReader_new(input, r.past), Len(r.data) + 1)
    IN \A k \in 0..(Len(r.data) - 1) :
           (r.data[k + 1] > 244 /\ Utf8Valid(SubSeq(r.data, 1, k))) =>
               LET pre == Utf8Decode(SubSeq(r.data, 1, k))
               IN /\ Len(st) = Len(pre) + 1
                  /\ \A j \in 1..Len(pre) : st[j].res = Some(pre[j])
                  /\ st[Len(pre) + 1].res
                         = [tag |-> "Utf8InvalidEncoding", c |-> 0, offset |-> k, len |-> 4]

\* C22 witness: over 41 42 FF the reader stands at offset 2 and the last
\* next_char failed with Utf8InvalidEncoding, offset 2 and len 4.
C22_Witness ==
    /\ input = <<65, 66, 255>>
    /\ out.op = "next_char" /\ r.pos.offset = 2
    /\ out.res = [tag |-> "Utf8InvalidEncoding", c |-> 0, offset |-> 2, len |-> 4]

\* the line and column of the byte at offset k of a buffer whose first k
\* bytes are whole scalars: the line feeds before it, and the scalars since
\* the last of them
LinesBefore(bs, k) ==
    Cardinality({i \in 1..k : bs[i] = Byte.LF})

ColumnsBefore(bs, k) ==
    LET start == IF \E i \in 1..k : bs[i] = Byte.LF
                 THEN CHOOSE i \in 1..k : bs[i] = Byte.LF /\ \A j \in (i + 1)..k : bs[j] # Byte.LF
                 ELSE 0
    IN Len(Utf8Decode(SubSeq(bs, start + 1, k)))

\* C23: when next_char fails with a UTF-8 error the reader's position is the
\* start of the offending scalar, in offset, line and column, and a second
\* next_char without a seek fails with the same error at the same position.
C23_ErrorLeavesPosition ==
    (out.op = "next_char" /\ IsErr(out.res)) =>
        /\ r.pos.offset = out.res.offset
        /\ (r.pos.offset <= Len(r.data) /\ Utf8Valid(SubSeq(r.data, 1, r.pos.offset))) =>
               /\ r.pos.line = LinesBefore(r.data, r.pos.offset)
               /\ r.pos.column = ColumnsBefore(r.data, r.pos.offset)
        /\ LET n == next_char(r)
           IN n.res = out.res /\ position(n.r) = position(r)

\* C23 witness: over 0A FF the second next_char failed at offset 1, which is
\* line 1, column 0.
C23_Witness ==
    /\ input = <<Byte.LF, Byte.Bad>>
    /\ out.op = "next_char" /\ IsErr(out.res)
    /\ r.pos = [offset |-> 1, line |-> 1, column |-> 0]

\* the position m scalars after p in a buffer that is well formed from p on
RECURSIVE StepOver(_, _, _)
StepOver(bs, p, m) ==
    IF m = 0 THEN p
    ELSE LET w == Utf8Width(bs, p.offset + 1)
         IN StepOver(bs,
                     IF bs[p.offset + 1] = Byte.LF
                     THEN [offset |-> p.offset + w, line |-> p.line + 1, column |-> 0]
                     ELSE [offset |-> p.offset + w, line |-> p.line, column |-> p.column + 1],
                     m - 1)

\* the reader stands in a well-formed rest of its buffer with n scalars or more
ScalarsRemain(rd, n) ==
    /\ rd.pos.offset <= Len(rd.data)
    /\ Utf8ValidFrom(rd.data, rd.pos.offset + 1)
    /\ Len(Utf8DecodeFrom(rd.data, rd.pos.offset + 1)) >= n

\* C24 (as claimed): skip_chars(n) with n scalars or more remaining moves
\* position() forward by exactly n scalars, whatever state the reader is in.
C24_SkipMovesNScalars ==
    \A n \in 1..MaxLook :
        ScalarsRemain(r, n) => position(skip_chars(r, n).r) = StepOver(r.data, position(r), n)

\* C24 (amended): skip_chars(n) is n calls of next_char.  On a reader that
\* holds a scalar (after peek_char(0) or next_char) it moves position() forward
\* by exactly n scalars; on a reader that holds none (fresh, or just after
\* seek) the first call loads the scalar at the position without moving, and
\* position() moves forward by n - 1 scalars.
C24_SkipIsNReads ==
    \A n \in 1..MaxLook :
        ScalarsRemain(r, n) =>
            position(skip_chars(r, n).r)
                = StepOver(r.data, position(r), IF r.len > 0 THEN n ELSE n - 1)

\* C24 witness: skip_chars(2) on the fresh reader over 41 42 FF, the call of
\* tests::utf8_encoding_err_offset, has left the reader on 'B' at offset 1.
C24_Witness ==
    /\ input = <<65, 66, 255>>
    /\ out.op = "skip_chars" /\ out.res = None
    /\ r.pos.offset = 1 /\ r.len = 1 /\ r.c = Byte.B

(***************************************************************************)
(* Specification SpecLook: the calls of Spec and the matching calls        *)
(* match_char, match_str and match_str_term, with strings and predicates   *)
(* drawn from small sets.                                                  *)
(***************************************************************************)
\* the strings matched: a &str, so whole scalars only
MatchStrs == {<<>>, <<Byte.A>>, <<Byte.LF>>, <<Byte.A, Byte.B>>, <<196, 133>>}

MatchChars == {Byte.A, Byte.LF}

Predicates == {"none_or_whitespace", "is_some", "is_A"}

MatchChar ==
    /\ Live
    /\ \E c \in MatchChars :
         LET n == match_char(r, c)
         IN /\ r' = n.r
            /\ out' = Call("match_char", n.res, position(n.r))
            /\ seen' = seen \cup {position(n.r)}
    /\ UNCHANGED <<input, cfg, tok, cv, val, diags, added>>

MatchStr ==
    /\ \E s \in MatchStrs :
         LET n == match_str(r, s)
         IN /\ r' = n.r
            /\ out' = Call("match_str", n.res, position(n.r))
    /\ UNCHANGED <<input, seen, cfg, tok, cv, val, diags, added>>

MatchStrTerm ==
    /\ \E s \in MatchStrs, p \in Predicates :
         LET n == match_str_term(r, s, p)
         IN /\ r' = n.r
            /\ out' = Call("match_str_term", n.res, position(n.r))
    /\ UNCHANGED <<input, seen, cfg, tok, cv, val, diags, added>>

NextLook == Next \/ MatchChar \/ MatchStr \/ MatchStrTerm

SpecLook == Init /\ [][NextLook]_vars

\* the bytes at the reader's position are s
BytesAt(rd, s) ==
    /\ rd.pos.offset + Len(s) <= Len(rd.data)
    /\ SubSeq(rd.data, rd.pos.offset + 1, rd.pos.offset + Len(s)) = s

\* the scalar at offset e of the buffer, None at its end
ScalarAt(bs, e) ==
    IF e >= Len(bs) THEN None ELSE Some(Utf8Value(bs, e + 1, Utf8Width(bs, e + 1)))

\* C25: peek_char, peek_char_pos, match_char, match_str and match_str_term
\* leave position() as it was, in every reader state and for every argument;
\* match_str(s) is true exactly when the bytes at the position are s, and
\* match_str_term(s, p) exactly when they are and p holds of the scalar after
\* s, None at the end of the input.
C25_LookaheadNeverConsumes ==
    /\ \A k \in 0..MaxLook :
           /\ position(peek_char(r, k).r) = position(r)
           /\ position(peek_char_pos(r, k).r) = position(r)
    /\ \A c \in MatchChars : position(match_char(r, c).r) = position(r)
    /\ \A s \in MatchStrs :
           /\ position(match_str(r, s).r) = position(r)
           /\ match_str(r, s).res = Bool(BytesAt(r, s))
           /\ \A p \in Predicates :
                  LET e == r.pos.offset + Len(s)
                      t == match_str_term(r, s, p)
                  IN /\ position(t.r) = position(r)
                     /\ ~BytesAt(r, s) => t.res = Bool(FALSE)
                     /\ (BytesAt(r, s) /\ (e >= Len(r.data) \/ Utf8Width(r.data, e + 1) > 0)) =>
                            t.res = Bool(Holds(p, ScalarAt(r.data, e)))


(***************************************************************************)
(* Specification SpecNum: NumberParser::parse_number on a reader over a    *)
(* text.                                                                   *)
(*   input : the text (ASCII, so bytes and scalars coincide)               *)
(*   cfg   : the NumberParser's configuration                              *)
(*   r     : the reader handed to parse_number                             *)
(*   tok   : what parse_number returned (NoTok before the call)            *)
(*   out   : the last reader call made by the caller itself                *)
(***************************************************************************)
Signs == {<<>>, <<Ch.minus>>, <<Ch.plus>>}

Prefixes == {<<>>, <<Ch.d0, Ch.x>>, <<Ch.d0, Ch.o>>, <<Ch.d0, Ch.b>>}

NumAlphabet == {Ch.d1, Ch.d9, Ch.A, Ch.us, Ch.dot, Ch.e, Ch.minus, Ch.sp}

\* texts longer than MaxBody: fractions with exponents, after
\* tests::can_parse_exponent, and the markers 'E' and '+'
LongTexts ==
    {<<45, 49, 46, 57, 101, 45, 49>>, <<49, 46, 57, 101, 49>>, <<49, 101, 45, 49, 32>>,
     <<49, 69, 43, 57>>, <<49, 95, 46, 49, 95, 101, 95, 49>>, <<49, 101, 49, 46, 49>>,
     <<49, 46, 49, 46, 49>>, <<49, 101, 49, 101, 49>>, <<43, 49, 46, 101, 49>>,
     <<49, 46, 57, 101, 45, 32>>, <<49, 46, 57, 69, 95, 43, 95>>, <<45, 49, 101, 43, 65>>,
     <<49, 101, 45, 45, 49>>}

NumInputs ==
    {s \o p \o b : s \in Signs, p \in Prefixes, b \in SeqsUpTo(NumAlphabet, MaxBody)}
    \cup LongTexts

InitNum ==
    /\ input \in NumInputs
    /\ cfg = NumberParser_new
    /\ r = MemCharReader_new(input, Byte.SP)
    /\ tok = NoTok
    /\ out = Call("new", None, Position_new)
    /\ seen = {} /\ cv = NoCv /\ val = NoVal
    /\ diags = NoDiags /\ added = <<>>

\* the caller looks at the first character before it calls the parser
NumPeek ==
    /\ tok = NoTok
    /\ out.op = "new"
    /\ LET n == peek_char(r, 0)
       IN /\ r' = n.r
          /\ out' = Call("peek_char", n.res, position(n.r))
    /\ UNCHANGED <<input, cfg, tok, seen, cv, val, diags, added>>

ParseNumber ==
    /\ tok = NoTok
    /\ LET n == parse_number(cfg, r)
       IN /\ r' = n.r
          /\ tok' = n.tok
          /\ out' = Call("parse_number", None, position(n.r))
    /\ UNCHANGED <<input, cfg, seen, cv, val, diags, added>>

\* the caller looks at the character after the number
NumPeekAfter ==
    /\ tok # NoTok
    /\ out.op = "parse_number"
    /\ LET n == peek_char(r, 0)
       IN /\ r' = n.r
          /\ out' = Call("peek_after", n.res, position(n.r))
    /\ UNCHANGED <<input, cfg, tok, seen, cv, val, diags, added>>

NextNum == NumPeek \/ ParseNumber \/ NumPeekAfter

SpecNum == InitNum /\ [][NextNum]_vars

(***************************************************************************)
(* Shapes of the text, for the claims about the recogniser.                *)
(***************************************************************************)
SignOf(text) ==
    IF text # <<>> /\ text[1] = Ch.minus THEN "Minus"
    ELSE IF text # <<>> /\ text[1] = Ch.plus THEN "Plus"
    ELSE "None"

IsDecDigit(c) == c >= Ch.d0 /\ c <= Ch.d9
IsDecDigitOrUs(c) == IsDecDigit(c) \/ c = Ch.us

\* text = sign, prefix of n, then one or more digits of n and nothing else
SignedPrefixedDigits(text, n) ==
    LET k == Len(n.prefix)
    IN /\ Len(text) >= 1 + k + 1
       /\ text[1] \in {Ch.minus, Ch.plus}
       /\ SubSeq(text, 2, 1 + k) = n.prefix
       /\ \A i \in (2 + k)..Len(text) : is_digit(n, text[i])

\* the characters of a token's digit run: its span without sign and prefix
DigitRunOf(text, t, np) ==
    LET pre == CASE t.notation = "Hex" -> Len(np.hex.prefix)
                 [] t.notation = "Octal" -> Len(np.octal.prefix)
                 [] t.notation = "Binary" -> Len(np.binary.prefix)
                 [] OTHER -> 0
    IN SubSeq(text, t.span.start.offset + Sign_len(t.sign) + pre + 1, t.span.end.offset)

\* text = optional sign, decimal digits (underscores among them), a dot at
\* index k, and then the end or a character that is no digit
DotAt(text, k) ==
    LET s == Sign_len(SignOf(text))
    IN /\ k <= Len(text) /\ k >= s + 2
       /\ text[k] = Ch.dot
       /\ IsDecDigit(text[s + 1])
       /\ \A i \in (s + 1)..(k - 1) : IsDecDigitOrUs(text[i])
       /\ (k = Len(text) \/ ~IsDecDigit(text[k + 1]))

(***************************************************************************)
(* Claims about the recogniser, under SpecNum.                             *)
(***************************************************************************)

\* C1 (as claimed): with the default configuration, for a text made of a sign
\* '-' or '+', a prefix 0x / 0o / 0b and one or more digits of that notation,
\* parse_number returns Ok with that sign, that notation and the span from the
\* sign (offset 0) to the end of the digits.
C1_SignedPrefixedNumber ==
    \A n \in {cfg.hex, cfg.octal, cfg.binary} :
        (tok # NoTok /\ SignedPrefixedDigits(input, n)) =>
            /\ tok.tag = "Ok"
            /\ tok.sign = SignOf(input)
            /\ tok.notation = get_notation(n)
            /\ tok.span.start.offset = 0
            /\ tok.span.end.offset = Len(input)

\* C4 (as claimed): digit grouping.  The digit run of a token parse_number
\* returns does not begin with '_', does not end with '_' and holds no "__".
C4_DigitGrouping ==
    (tok # NoTok /\ tok.tag = "Ok") =>
        LET run == DigitRunOf(input, tok, cfg)
        IN /\ run # <<>>
           /\ run[1] # Ch.us
           /\ run[Len(run)] # Ch.us
           /\ \A i \in 1..(Len(run) - 1) : ~(run[i] = Ch.us /\ run[i + 1] = Ch.us)

\* C5: decimal dot retraction.  When the text is decimal digits, a dot, and then
\* no digit, parse_number returns a Decimal token whose span ends at the dot,
\* leaves the reader at the dot, and the next peek_char(0) returns '.'.
C5_DotRetraction ==
    \A k \in 1..Len(input) :
        (tok # NoTok /\ DotAt(input, k)) =>
            /\ tok.tag = "Ok"
            /\ tok.notation = "Decimal"
            /\ tok.sign = SignOf(input)
            /\ tok.span.start = Position_new
            /\ tok.span.end = [offset |-> k - 1, line |-> 0, column |-> k - 1]
            /\ position(r) = tok.span.end
            /\ peek_char(r, 0).res = Some(Ch.dot)
            /\ (out.op = "peek_after" => out.res = Some(Ch.dot))

\* C5 witness: a signed decimal followed by ".." has been recognised and the
\* caller's next peek has returned the dot.
C5_Witness ==
    /\ tok # NoTok /\ tok.tag = "Ok" /\ tok.sign = "Minus"
    /\ \E k \in 3..(Len(input) - 1) : DotAt(input, k) /\ input[k + 1] = Ch.dot
    /\ out.op = "peek_after" /\ out.res = Some(Ch.dot)

MinusSpace == <<Ch.minus, Ch.sp>>

DecimalTask == "parsing a decimal number literal"

\* C15 (as claimed): parse_number on '- ' fails with UnexpectedInput whose found
\* is ' ', whose expected is the one-of set of '-', '+' and '0'..'9' and whose
\* task is 'parsing a decimal number literal'.
C15_SignThenSpace ==
    (input = MinusSpace /\ tok # NoTok) =>
        /\ tok.tag = "UnexpectedInput"
        /\ tok.found = Ch.sp
        /\ tok.expected.k = "OneOf"
        /\ {tok.expected.items[i] : i \in 1..Len(tok.expected.items)}
               = {ExpChar(Ch.minus), ExpChar(Ch.plus), ExpCharRange(Ch.d0, Ch.d9)}
        /\ tok.task = DecimalTask

\* C15 (amended): parse_number on '- ' fails with UnexpectedInput at offset 1
\* whose found is ' ', whose expected is the range '0'..'9' alone (the sign has
\* been read, none is offered again) and whose task is 'parsing a decimal
\* number literal'.
C15_SignThenSpaceDigitsOnly ==
    (input = MinusSpace /\ tok # NoTok) =>
        /\ tok.tag = "UnexpectedInput"
        /\ tok.pos = [offset |-> 1, line |-> 0, column |-> 1]
        /\ tok.found = Ch.sp
        /\ tok.expected = ExpCharRange(Ch.d0, Ch.d9)
        /\ tok.task = DecimalTask

\* C15 witness: parse_number has failed on '- ' at the space.
C15_Witness ==
    /\ input = MinusSpace
    /\ tok # NoTok /\ tok.tag = "UnexpectedInput" /\ tok.found = Ch.sp
    /\ out.op = "parse_number"

\* the decimal scan parse_number runs on `text`: the reader holds the first
\* character, as decimal.is_at_start leaves it
DecimalScanOf(np, text) ==
    DecimalScan(np.decimal, SignOf(text),
                peek_char(MemCharReader_new(text, Byte.SP), 0).r)

NotationRank(n) ==
    CASE n = "NoNotation" -> 0 [] n = "Decimal" -> 1 [] n = "Float" -> 2 [] n = "Exponent" -> 3

IsExpMarker(c) == c = Ch.e \/ c = Ch.E

\* the notation the consumed characters `t` spell
NotationOfText(t) ==
    IF \E i \in 1..Len(t) : IsExpMarker(t[i]) /\ \E j \in (i + 1)..Len(t) : IsDecDigit(t[j])
    THEN "Exponent"
    ELSE IF \E i \in 1..(Len(t) - 1) : t[i] = Ch.dot /\ IsDecDigit(t[i + 1])
    THEN "Float"
    ELSE "Decimal"

\* C17: a decimal literal parse_number accepts is Decimal when only digits and
\* underscores were consumed, Float when a '.' and a digit after it were and no
\* exponent, Exponent when an 'e' or 'E' and a digit after it were; during the
\* scan the notation only moves forward.
C17_NotationOfDecimalLiteral ==
    (tok # NoTok /\ tok.tag = "Ok" /\ tok.notation \in {"Decimal", "Float", "Exponent"}) =>
        LET t == SubSeq(input, tok.span.start.offset + 1, tok.span.end.offset)
            sc == DecimalScanOf(cfg, input)
        IN /\ tok.notation = NotationOfText(t)
           /\ sc.notation = tok.notation
           /\ \A i \in 1..(Len(sc.hist) - 1) :
                  NotationRank(sc.hist[i]) <= NotationRank(sc.hist[i + 1])

\* C17 witness: a literal with a fraction and a signed exponent has been
\* recognised as Exponent, after the scan went through Decimal and Float.
C17_Witness ==
    /\ tok # NoTok /\ tok.tag = "Ok" /\ tok.notation = "Exponent"
    /\ \E i \in 1..Len(input) : input[i] = Ch.dot
    /\ \E i, j \in 1..Len(DecimalScanOf(cfg, input).hist) :
           /\ DecimalScanOf(cfg, input).hist[i] = "Decimal"
           /\ DecimalScanOf(cfg, input).hist[j] = "Float"

\* digits and underscores with at most one dot, each dot before a digit,
\* starting with a digit: what the scan consumes before an exponent marker
IsMantissa(m) ==
    /\ Len(m) >= 1 /\ IsDecDigit(m[1])
    /\ \A i \in 1..Len(m) : IsDecDigitOrUs(m[i]) \/ m[i] = Ch.dot
    /\ Cardinality({i \in 1..Len(m) : m[i] = Ch.dot}) <= 1
    /\ \A i \in 1..Len(m) : m[i] = Ch.dot => (i < Len(m) /\ IsDecDigit(m[i + 1]))

\* the first index from i on that holds no underscore (Len + 1: none)
SkipUs(text, i) ==
    CHOOSE j \in i..(Len(text) + 1) :
        /\ \A x \in i..(j - 1) : text[x] = Ch.us
        /\ (j > Len(text) \/ text[j] # Ch.us)

IsSignChar(c) == c = Ch.minus \/ c = Ch.plus

\* where the scan of `text` stops when its exponent marker is at index k: after
\* the marker, underscores, an optional sign and underscores
ExpStopAt(text, k) ==
    LET a == SkipUs(text, k + 1)
    IN IF a <= Len(text) /\ IsSignChar(text[a]) THEN SkipUs(text, a + 1) ELSE a

ExpSignTaken(text, k) ==
    LET a == SkipUs(text, k + 1) IN a <= Len(text) /\ IsSignChar(text[a])

\* text = optional sign, mantissa, exponent marker at index k, and the scan
\* stops behind it at the end or at a character that is no digit
StopsAfterExponent(text, k) ==
    LET s == Sign_len(SignOf(text))
    IN /\ k <= Len(text) /\ k >= s + 2
       /\ IsExpMarker(text[k])
       /\ IsMantissa(SubSeq(text, s + 1, k - 1))
       /\ (ExpStopAt(text, k) > Len(text) \/ ~IsDecDigit(text[ExpStopAt(text, k)]))

\* the expected set after a bare marker, and after the exponent's sign
ExpectedAfterMarker ==
    [k |-> "OneOf", items |-> <<ExpChar(Ch.plus), ExpChar(Ch.minus), ExpChar(Ch.us),
                                ExpCharRange(Ch.d0, Ch.d9)>>]
ExpectedAfterExpSign ==
    [k |-> "OneOf", items |-> <<ExpChar(Ch.us), ExpCharRange(Ch.d0, Ch.d9)>>]

\* C18: when the decimal scan stops right after an exponent marker or after
\* the exponent's sign, parse_number fails with UnexpectedEof (end of input) or
\* UnexpectedInput (other character) at the stop, with the expected set of the
\* last symbol class; it returns no token.
C18_StopAfterExponentFails ==
    \A k \in 1..Len(input) :
        (tok # NoTok /\ StopsAfterExponent(input, k)) =>
            LET j == ExpStopAt(input, k)
                at == [offset |-> j - 1, line |-> 0, column |-> j - 1]
                ex == IF ExpSignTaken(input, k) THEN ExpectedAfterExpSign
                      ELSE ExpectedAfterMarker
            IN tok = IF j > Len(input) THEN UnexpectedEof(at, ex, DecimalTask)
                     ELSE UnexpectedInput(at, input[j], ex, DecimalTask)

\* C18 witness: a fraction with a marker and a sign, then a character that is
\* no digit, has been refused at that character.
C18_Witness ==
    /\ tok # NoTok /\ tok.tag = "UnexpectedInput"
    /\ \E k \in 1..Len(input) :
           /\ StopsAfterExponent(input, k) /\ ExpSignTaken(input, k)
           /\ \E i \in 1..k : input[i] = Ch.dot

\* `text` begins with the prefix of n
StartsWithPrefix(text, n) ==
    Len(text) >= Len(n.prefix) /\ SubSeq(text, 1, Len(n.prefix)) = n.prefix

\* C19: the notations are tried in the order hex, octal, binary, decimal, so
\* with the default configuration an input that starts with '0x', '0o' or '0b'
\* is never returned as a decimal token for its leading '0': parse_number
\* returns a token of the prefix's notation, or fails.
C19_PrefixNeverDecimal ==
    \A n \in {cfg.hex, cfg.octal, cfg.binary} :
        (tok # NoTok /\ StartsWithPrefix(input, n)) =>
            \/ tok.tag = "Ok" /\ tok.notation = get_notation(n)
            \/ tok.tag \in {"UnexpectedInput", "UnexpectedEof"}

\* C19 witness: '0o' and an octal digit, which is a decimal digit too, have
\* been recognised as Octal, and the token goes beyond the leading '0'.
C19_Witness ==
    /\ StartsWithPrefix(input, cfg.octal) /\ Len(input) >= 3 /\ input[3] = Ch.d1
    /\ tok # NoTok /\ tok.tag = "Ok" /\ tok.notation = "Octal"
    /\ tok.span.end.offset >= 3

(***************************************************************************)
(* Specification SpecCfg: parse_number under configurations other than     *)
(* NumberParser::new().  Every field of the four blocks is public, so a    *)
(* caller sets them freely; the configurations below change the fields of  *)
(* one block at a time and combine the blocks.                             *)
(***************************************************************************)
DecimalConfigs ==
    {DecimalConfig_new,
     [DecimalConfig_new EXCEPT !.enabled = FALSE],
     [DecimalConfig_new EXCEPT !.allow_minus = FALSE],
     [DecimalConfig_new EXCEPT !.allow_plus = FALSE],
     [DecimalConfig_new EXCEPT !.allow_float = FALSE],
     [DecimalConfig_new EXCEPT !.allow_exponent = FALSE],
     [DecimalConfig_new EXCEPT !.case = "Upper"],
     [DecimalConfig_new EXCEPT !.case = "Lower"]}

HexConfigs ==
    {HexConfig_new,
     [HexConfig_new EXCEPT !.enabled = FALSE],
     [HexConfig_new EXCEPT !.allow_minus = FALSE],
     [HexConfig_new EXCEPT !.allow_plus = FALSE],
     [HexConfig_new EXCEPT !.case = "Upper"],
     [HexConfig_new EXCEPT !.case = "Lower"],
     [HexConfig_new EXCEPT !.prefix = <<>>],
     [HexConfig_new EXCEPT !.prefix = <<>>, !.case = "Upper", !.allow_minus = FALSE]}

OctalConfigs == {OctalConfig_new, [OctalConfig_new EXCEPT !.enabled = FALSE]}

BinaryConfigs == {BinaryConfig_new, [BinaryConfig_new EXCEPT !.enabled = FALSE]}

Configurations ==
    {[decimal |-> d, hex |-> h, octal |-> o, binary |-> b] :
        d \in DecimalConfigs, h \in HexConfigs, o \in OctalConfigs, b \in BinaryConfigs}

\* digits of both cases, fractions and exponents with both markers
CfgBodies ==
    {<<Ch.d1>>, <<Ch.A>>, <<Ch.a>>, <<Ch.d1, Ch.A>>, <<Ch.d1, Ch.a>>, <<Ch.A, Ch.a>>,
     <<Ch.d1, Ch.dot, Ch.d9>>, <<Ch.d1, Ch.e, Ch.d1>>, <<Ch.d1, Ch.E, Ch.d1>>,
     <<Ch.d1, Ch.dot, Ch.d9, Ch.E, Ch.d1>>, <<Ch.d1, Ch.e, Ch.minus, Ch.d1>>}

CfgInputs ==
    {s \o p \o b : s \in Signs, p \in {<<>>, HexConfig_new.prefix}, b \in CfgBodies}
    \cup {s \o p \o <<Ch.d1>> : s \in Signs, p \in {OctalConfig_new.prefix, BinaryConfig_new.prefix}}

InitCfg ==
    /\ input \in CfgInputs
    /\ cfg \in Configurations
    /\ r = MemCharReader_new(input, Byte.SP)
    /\ tok = NoTok
    /\ out = Call("new", None, Position_new)
    /\ seen = {} /\ cv = NoCv /\ val = NoVal
    /\ diags = NoDiags /\ added = <<>>

SpecCfg == InitCfg /\ [][NextNum]_vars

\* the configuration block a notation belongs to
BlockOf(np, notation) ==
    CASE notation = "Hex" -> np.hex
      [] notation = "Octal" -> np.octal
      [] notation = "Binary" -> np.binary
      [] OTHER -> np.decimal

\* a character that can be a hex digit or an exponent marker is of the case
\* the block asks for
CaseRespected(n, c) ==
    /\ (c >= Ch.A /\ c <= Ch.F) => n.case # "Lower"
    /\ (c >= Ch.a /\ c <= Ch.f) => n.case # "Upper"

\* C20: a token returned by parse_number respects the configuration: the
\* block of its notation is enabled, it is Float only if allow_float and
\* Exponent only if allow_exponent, its sign is one the block allows, and the
\* hex digits and exponent markers of its span are of the configured case.
C20_TokenRespectsConfiguration ==
    (tok # NoTok /\ tok.tag = "Ok") =>
        LET n == BlockOf(cfg, tok.notation)
            t == SubSeq(input, tok.span.start.offset + 1, tok.span.end.offset)
            body == SubSeq(t, Len(n.prefix) + Sign_len(tok.sign) + 1, Len(t))
        IN /\ n.enabled
           /\ tok.notation = "Float" => cfg.decimal.allow_float
           /\ tok.notation = "Exponent" => cfg.decimal.allow_exponent
           /\ tok.sign = "Minus" => n.allow_minus
           /\ tok.sign = "Plus" => n.allow_plus
           /\ \A i \in 1..Len(body) : CaseRespected(n, body[i])

\* C20 witness: with hex.case = Upper, '0xAa' has been recognised as a hex
\* token that ends before the lower-case digit.
C20_Witness ==
    /\ cfg.hex.case = "Upper" /\ cfg.hex.prefix = HexConfig_new.prefix
    /\ input = HexConfig_new.prefix \o <<Ch.A, Ch.a>>
    /\ tok # NoTok /\ tok.tag = "Ok" /\ tok.notation = "Hex"
    /\ tok.span.end.offset = 3

(***************************************************************************)
(* Conversion of a recognised literal to a number, parse/num.rs.           *)
(* A target type is a record of its name, width and range; a conversion    *)
(* result is Ok(v) or an error of kind Overflow or Underflow.              *)
(***************************************************************************)
RECURSIVE Pow(_, _)
Pow(b, n) == IF n = 0 THEN 1 ELSE b * Pow(b, n - 1)

Unsigned(name, bits) == [name |-> name, bits |-> bits, min |-> 0, max |-> Pow(2, bits) - 1]
Signed(name, bits) ==
    [name |-> name, bits |-> bits, min |-> -Pow(2, bits - 1), max |-> Pow(2, bits - 1) - 1]

u8 == Unsigned("u8", 8)
i8 == Signed("i8", 8)
u16 == Unsigned("u16", 16)
i16 == Signed("i16", 16)

ConvOk(v) == [tag |-> "Ok", v |-> v]
ConvErr(kind) == [tag |-> "Err", kind |-> kind]

\* `d as $ty` of a u8
from_u8(ty, d) == IF d > ty.max THEN d - Pow(2, ty.bits) ELSE d

\* checked_add, checked_sub, checked_mul: the result, or "None" out of range
Checked(ty, v) == IF v >= ty.min /\ v <= ty.max THEN Some(v) ELSE None
add(ty, a, b) == Checked(ty, a + b)
\* a subtraction that keeps the result within the magnitude of ty.max
sub_symmetric(ty, a, b) == IF a - b >= -ty.max /\ a - b <= ty.max THEN Some(a - b) ELSE None
\* a subtraction that stops at the smallest value of the type
sub_saturating(ty, a, b) == Some(IF a - b < ty.min THEN ty.min ELSE a - b)
sub(ty, a, b) == Checked(ty, a - b)
mul2(ty, a) == Checked(ty, a * 2)
mul8(ty, a) == Checked(ty, a * 8)
mul10(ty, a) == Checked(ty, a * 10)
mul16(ty, a) == Checked(ty, a * 16)

\* u8 arithmetic on the digit's byte
digit_dec(ty, d) == from_u8(ty, (d - Ch.d0) % 256)

digit_hex(ty, d) ==
    IF d >= Ch.a THEN from_u8(ty, (d - Ch.a + 10) % 256)
    ELSE IF d >= Ch.A THEN from_u8(ty, (d - Ch.A + 10) % 256)
    ELSE from_u8(ty, (d - Ch.d0) % 256)

\* mul2 / mul8 / mul10 / mul16, by the radix of the function that calls it
mul(ty, base, a) ==
    CASE base = 10 -> mul10(ty, a)
      [] base = 8 -> mul8(ty, a)
      [] base = 2 -> mul2(ty, a)
      [] base = 16 -> mul16(ty, a)

\* the loops of parse_decimal / parse_octal / parse_binary / parse_hex: skip '_',
\* multiply by the radix, then add the digit (sign not Minus, None is Overflow)
\* or subtract it (sign Minus, None is Underflow)
DigitLoop(ty, sign, s, base) ==
    LET kind == IF sign # "Minus" THEN "Overflow" ELSE "Underflow"
        n[i \in 0..Len(s)] ==
            IF i = 0 THEN ConvOk(from_u8(ty, 0))
            ELSE With(n[i - 1], LAMBDA prev :
                     IF prev.tag # "Ok" \/ s[i] = Ch.us THEN prev
                     ELSE With(mul(ty, base, prev.v), LAMBDA m :
                              IF m.tag = "None" THEN ConvErr(kind)
                              ELSE With(IF base = 16 THEN digit_hex(ty, s[i])
                                        ELSE digit_dec(ty, s[i]), LAMBDA d :
                                       With(IF sign # "Minus" THEN add(ty, m.c, d)
                                            ELSE sub(ty, m.c, d), LAMBDA a :
                                                IF a.tag = "None" THEN ConvErr(kind)
                                                ELSE ConvOk(a.c)))))
    IN n[Len(s)]

parse_decimal(ty, sign, s) == DigitLoop(ty, sign, s, 10)

parse_octal(ty, sign, s) == DigitLoop(ty, sign, s, 8)

parse_binary(ty, sign, s) == DigitLoop(ty, sign, s, 2)

parse_hex(ty, sign, s) == DigitLoop(ty, sign, s, 16)

\* MemCharReader::slice: data[start..end], a panic when the range is not in the buffer
slice(rd, start, end) ==
    IF start <= end /\ end <= Len(rd.data) THEN SubSeq(rd.data, start + 1, end)
    ELSE <<Panic>>

Numerical(span, kind) == [tag |-> "Numerical", span |-> span, kind |-> kind]

(***************************************************************************)
(* Natural numbers of any size, as the sequence of their bits, least       *)
(* significant first and without leading zeros (zero is <<>>): the 64-bit  *)
(* types and the f64 values next to them do not fit a model integer.       *)
(***************************************************************************)
BitAt(a, i) == IF i >= 1 /\ i <= Len(a) THEN a[i] ELSE 0

Trim(a) ==
    IF \A i \in 1..Len(a) : a[i] = 0 THEN <<>>
    ELSE SubSeq(a, 1, CHOOSE i \in 1..Len(a) : a[i] = 1 /\ \A j \in (i + 1)..Len(a) : a[j] = 0)

\* the carry into bit i of the addition whose bit sums are s: some lower
\* bit makes a carry and every bit between passes it on
Carry(s, i) ==
    \E j \in 1..(i - 1) : s[j] = 2 /\ \A k \in (j + 1)..(i - 1) : s[k] >= 1

BAdd(a, b) ==
    LET n == IF Len(a) > Len(b) THEN Len(a) ELSE Len(b)
    IN With([i \in 1..(n + 1) |-> BitAt(a, i) + BitAt(b, i)], LAMBDA s :
           Trim([i \in 1..(n + 1) |-> (s[i] + (IF Carry(s, i) THEN 1 ELSE 0)) % 2]))

Shl(a, k) == IF a = <<>> THEN <<>> ELSE [i \in 1..k |-> 0] \o a

BGt(a, b) ==
    \/ Len(a) > Len(b)
    \/ /\ Len(a) = Len(b)
       /\ \E i \in 1..Len(a) : a[i] > b[i] /\ \A j \in (i + 1)..Len(a) : a[j] = b[j]

\* the bits of a decimal digit d, and the model integer of a bit sequence
DigitBits(d) == Trim(<<d % 2, (d \div 2) % 2, (d \div 4) % 2, d \div 8>>)

BitsInt(a) ==
    LET n[i \in 0..Len(a)] == IF i = 0 THEN 0 ELSE n[i - 1] + a[i] * Pow(2, i - 1)
    IN n[Len(a)]

\* the number written by a string of decimal digits, most significant first
BitsOfDigits(s) ==
    LET n[i \in 0..Len(s)] ==
            IF i = 0 THEN <<>>
            ELSE With(n[i - 1], LAMBDA p :
                     BAdd(BAdd(Shl(p, 3), Shl(p, 1)), DigitBits(s[i] - Ch.d0)))
    IN n[Len(s)]

Ones(n) == [i \in 1..n |-> 1]

(***************************************************************************)
(* f64 values: a sign, the whole part w of the magnitude and what is left  *)
(* after the binary point.  An f64 keeps 53 significant bits: a whole part *)
(* of 53 bits or more is rounded to them, to nearest and ties to even.     *)
(* Below 2^53 the fraction is kept as a flag, whether it is zero: an f64   *)
(* rounds it at 53 - Len(w) bits, which reaches the next integer only for  *)
(* a fraction within 2^-(53 - Len(w)) of it, and the literals converted    *)
(* here either have a whole part under 2^17 and at most three fraction     *)
(* digits, or a whole part of 2^53 or more.                                *)
(***************************************************************************)
F64(neg, w, frac) == [tag |-> "Ok", neg |-> neg, w |-> w, frac |-> frac]

\* rounding to 53 significant bits of the whole part w followed by the
\* decimal fraction 0.f
Round53(neg, w, f) ==
    LET nonzero(t) == \E i \in 1..Len(t) : t[i] # Ch.d0
        drop == Len(w) - 53
        kept == SubSeq(w, drop + 1, Len(w))
        guard == IF drop = 0 THEN f # <<>> /\ f[1] >= Ch.d5 ELSE w[drop] = 1
        rest == IF drop = 0 THEN nonzero(Tail(f)) \/ (f[1] # Ch.d5 /\ f[1] # Ch.d0)
                ELSE nonzero(f) \/ \E i \in 1..(drop - 1) : w[i] = 1
    IN IF drop < 0 THEN F64(neg, w, nonzero(f))
       ELSE IF drop = 0 /\ f = <<>> THEN F64(neg, w, FALSE)
       ELSE F64(neg, Shl(IF guard /\ (rest \/ kept[1] = 1) THEN BAdd(kept, <<1>>) ELSE kept,
                         drop), FALSE)

\* the first index of s that holds a character of cs, or Len(s) + 1
FirstIndex(s, cs) ==
    IF \E i \in 1..Len(s) : s[i] \in cs
    THEN CHOOSE i \in 1..Len(s) : s[i] \in cs /\ \A j \in 1..(i - 1) : s[j] \notin cs
    ELSE Len(s) + 1

AllDecDigits(s) == \A i \in 1..Len(s) : s[i] >= Ch.d0 /\ s[i] <= Ch.d9

\* the number written by a short string of decimal digits
DecFold(s) ==
    LET n[i \in 0..Len(s)] == IF i = 0 THEN 0 ELSE n[i - 1] * 10 + (s[i] - Ch.d0)
    IN n[Len(s)]

\* str::parse::<f64>: [sign] digits ['.' digits] [('e' | 'E') [sign] digits],
\* with a digit in the mantissa; anything else is an error.  The decimal
\* point is moved by the exponent, then the value is rounded.
f64_parse(s) ==
    LET signed == s # <<>> /\ s[1] \in {Ch.minus, Ch.plus}
        body == IF signed THEN Tail(s) ELSE s
        ei == FirstIndex(body, {Ch.e, Ch.E})
        mant == SubSeq(body, 1, ei - 1)
        expt == SubSeq(body, ei + 1, Len(body))
        di == FirstIndex(mant, {Ch.dot})
        ip == SubSeq(mant, 1, di - 1)
        fp == SubSeq(mant, di + 1, Len(mant))
        esigned == expt # <<>> /\ expt[1] \in {Ch.minus, Ch.plus}
        ed == IF esigned THEN Tail(expt) ELSE expt
        valid == /\ AllDecDigits(ip) /\ AllDecDigits(fp) /\ Len(ip) + Len(fp) > 0
                 /\ ei <= Len(body) => (ed # <<>> /\ AllDecDigits(ed))
        e == IF ei > Len(body) THEN 0
             ELSE IF esigned /\ expt[1] = Ch.minus THEN -DecFold(ed) ELSE DecFold(ed)
        ds == ip \o fp
        point == Len(ip) + e
        whole == IF point >= Len(ds) THEN ds \o [i \in 1..(point - Len(ds)) |-> Ch.d0]
                 ELSE SubSeq(ds, 1, point)
        part == IF point >= Len(ds) THEN <<>>
                ELSE IF point >= 0 THEN SubSeq(ds, point + 1, Len(ds))
                ELSE [i \in 1..(-point) |-> Ch.d0] \o ds
    IN IF ~valid THEN ConvErr("Invalid")
       ELSE Round53(signed /\ s[1] = Ch.minus, BitsOfDigits(whole), part)

\* the integer types wider than a model integer: name and width
i64 == [name |-> "i64", bits |-> 64, signed |-> TRUE]
u64 == [name |-> "u64", bits |-> 64, signed |-> FALSE]

IsSigned(ty) == IF "signed" \in DOMAIN ty THEN ty.signed ELSE ty.min < 0

\* Self::max_value() and the magnitude of Self::min_value()
max_value(ty) == Ones(IF IsSigned(ty) THEN ty.bits - 1 ELSE ty.bits)
min_value(ty) == IF IsSigned(ty) THEN Shl(<<1>>, ty.bits - 1) ELSE <<>>

\* a value of an integer type: a model integer when it fits one
IntValue(neg, w) ==
    IF Len(w) <= 30 THEN (IF neg THEN -BitsInt(w) ELSE BitsInt(w))
    ELSE [neg |-> neg, bits |-> w]

\* `d as $ty`: the fraction is dropped, and a value beyond the type's range
\* becomes the nearest end of the range
f64_as(d, ty) ==
    IF ~d.neg /\ BGt(d.w, max_value(ty)) THEN IntValue(FALSE, max_value(ty))
    ELSE IF d.neg /\ BGt(d.w, min_value(ty)) THEN IntValue(TRUE, min_value(ty))
    ELSE IntValue(d.neg, d.w)

\* impl_numerical!: from_float_str of an integer type, with
\* min = Self::min_value() as f64 and max = Self::max_value() as f64
from_float_str(ty, s) ==
    With(f64_parse(s), LAMBDA d :
        LET min == Round53(TRUE, min_value(ty), <<>>)
            max == Round53(FALSE, max_value(ty), <<>>)
        IN IF d.tag # "Ok" THEN d
           ELSE IF d.neg /\ (BGt(d.w, min.w) \/ (d.w = min.w /\ d.frac))
           THEN ConvErr("Underflow")
           ELSE IF ~d.neg /\ (BGt(d.w, max.w) \/ (d.w = max.w /\ d.frac))
           THEN ConvErr("Overflow")
           ELSE ConvOk(f64_as(d, ty)))

\* s.chars() as they are
WithUnderscores(s) == s

\* s.chars() without the '_'
WithoutUnderscores(s) == SelectSeq(s, LAMBDA c : c # Ch.us)

\* the text convert_number hands to from_float_str: self.buffer when
\* decimal.allow_underscores, the slice itself otherwise
float_text(np, s) ==
    IF np.decimal.allow_underscores THEN WithoutUnderscores(s) ELSE s

\* convert_number
convert_number(np, span, sign, notation, rd, ty) ==
    LET from == span.start.offset + Sign_len(sign)
        res == CASE notation = "Decimal" ->
                      parse_decimal(ty, sign, slice(rd, from, span.end.offset))
                 [] notation = "Hex" ->
                      parse_hex(ty, sign, slice(rd, from + Len(np.hex.prefix), span.end.offset))
                 [] notation = "Octal" ->
                      parse_octal(ty, sign, slice(rd, from + Len(np.octal.prefix), span.end.offset))
                 [] notation = "Binary" ->
                      parse_binary(ty, sign, slice(rd, from + Len(np.binary.prefix), span.end.offset))
                 [] notation \in {"Float", "Exponent"} ->
                      LET s == slice(rd, span.start.offset, span.end.offset)
                      IN from_float_str(ty, float_text(np, s))
    IN IF res.tag = "Ok" THEN res ELSE Numerical(span, res.kind)

(***************************************************************************)
(* The converter's specification: a literal of an integer notation with    *)
(* its token, converted to a target type chosen by the caller.             *)
(***************************************************************************)
MaxDigits == 3

Types == {u8, i8, u16, i16}

SignText(sign) ==
    CASE sign = "Minus" -> <<Ch.minus>> [] sign = "Plus" -> <<Ch.plus>> [] OTHER -> <<>>

PrefixOf(np, notation) ==
    CASE notation = "Hex" -> np.hex.prefix
      [] notation = "Octal" -> np.octal.prefix
      [] notation = "Binary" -> np.binary.prefix
      [] OTHER -> <<>>

DigitAlphabet(notation) ==
    CASE notation = "Decimal" -> {Ch.d0, Ch.d1, Ch.d2, Ch.d5, Ch.d6, Ch.d7, Ch.d8, Ch.us}
      [] notation = "Hex" -> {Ch.d0, Ch.d1, Ch.d7, Ch.d8, Ch.a, Ch.F, Ch.f, Ch.us}
      [] notation = "Octal" -> {Ch.d0, Ch.d1, Ch.d2, Ch.d3, Ch.d7, Ch.us}
      [] notation = "Binary" -> {Ch.d0, Ch.d1, Ch.us}

\* digit strings longer than MaxDigits, around the ends of the 8-bit ranges
LongDigits(notation) ==
    CASE notation = "Binary" ->
             {<<49, 48, 48, 48, 48, 48, 48, 48>>, <<49, 49, 49, 49, 49, 49, 49>>,
              <<49, 48, 48, 48, 48, 48, 48, 49>>, <<49, 49, 49, 49, 49, 49, 49, 49>>,
              <<49, 48, 48, 48, 48, 48, 48, 48, 48>>}
      [] notation = "Decimal" -> {<<49, 95, 50, 56>>, <<48, 48, 49, 50, 57>>,
                                  <<51, 50, 55, 54, 56>>, <<54, 53, 53, 51, 53>>}
      [] notation = "Hex" -> {<<65, 65, 70, 70>>, <<55, 70, 70, 70>>, <<48, 48, 48, 48>>}
      [] OTHER -> {}

IsDigitChar(c) == c # Ch.us

DigitStrings(notation) ==
    {d \in SeqsUpTo(DigitAlphabet(notation), MaxDigits) :
        \E i \in 1..Len(d) : IsDigitChar(d[i])} \cup LongDigits(notation)

IntNotations == {"Decimal", "Hex", "Octal", "Binary"}

EndOf(text) == [offset |-> Len(text), line |-> 0, column |-> Len(text)]

InitConv ==
    /\ cfg = NumberParser_new
    /\ \E sign \in {"None", "Plus", "Minus"}, notation \in IntNotations :
           \E d \in DigitStrings(notation) :
               /\ input = SignText(sign) \o PrefixOf(cfg, notation) \o d
               /\ tok = TokOk(sign, notation, Position_new, EndOf(input))
    /\ r = MemCharReader_new(input, Byte.SP)
    /\ out = Call("new", None, Position_new)
    /\ seen = {} /\ cv = NoCv /\ val = NoVal
    /\ diags = NoDiags /\ added = <<>>

ConvertNumber ==
    /\ \E ty \in Types :
           /\ val' = convert_number(cfg, tok.span, tok.sign, tok.notation, r, ty)
           /\ cv' = [ty |-> ty]
    /\ UNCHANGED <<input, r, out, seen, cfg, tok, diags, added>>

NextConv == ConvertNumber

SpecConv == InitConv /\ [][NextConv]_vars

(***************************************************************************)
(* The value a literal denotes, by positional weights.                     *)
(***************************************************************************)
LowerDigits == <<48, 49, 50, 51, 52, 53, 54, 55, 56, 57, 97, 98, 99, 100, 101, 102>>
UpperDigits == <<48, 49, 50, 51, 52, 53, 54, 55, 56, 57, 65, 66, 67, 68, 69, 70>>

DigitValue(c) == CHOOSE v \in 0..15 : LowerDigits[v + 1] = c \/ UpperDigits[v + 1] = c

Strip(s) == SelectSeq(s, IsDigitChar)

RadixOf(notation) ==
    CASE notation = "Decimal" -> 10 [] notation = "Hex" -> 16
      [] notation = "Octal" -> 8 [] notation = "Binary" -> 2

RECURSIVE Weighted(_, _, _)
Weighted(t, base, i) ==
    IF i > Len(t) THEN 0
    ELSE DigitValue(t[i]) * Pow(base, Len(t) - i) + Weighted(t, base, i + 1)

\* the digit string of the literal in `input`
DigitsOf(text, t, np) ==
    SubSeq(text, Sign_len(t.sign) + Len(PrefixOf(np, t.notation)) + 1, Len(text))

TrueValue(text, t, np) ==
    LET mag == Weighted(Strip(DigitsOf(text, t, np)), RadixOf(t.notation), 1)
    IN IF t.sign = "Minus" THEN -mag ELSE mag

(***************************************************************************)
(* Claims about the converter, under SpecConv.                             *)
(***************************************************************************)

\* C2: radix faithfulness.  For every integer notation, sign, digit string and
\* target type, convert_number returns the true signed value of the literal
\* when it fits the type, and otherwise fails with Overflow (sign not Minus)
\* or Underflow (sign Minus).
C2_RadixFaithfulness ==
    val # NoVal =>
        LET v == TrueValue(input, tok, cfg)
        IN IF v >= cv.ty.min /\ v <= cv.ty.max
           THEN val = ConvOk(v)
           ELSE val = Numerical(tok.span, IF tok.sign = "Minus" THEN "Underflow" ELSE "Overflow")

\* C2 witness: '-128' has been converted to i8 and gave the smallest i8.
C2_Witness ==
    /\ input = <<Ch.minus, Ch.d1, Ch.d2, Ch.d8>>
    /\ val # NoVal /\ cv.ty = i8
    /\ val = ConvOk(i8.min)

\* the digits of the literal are all '0'
AllZero(text, t, np) ==
    \A i \in 1..Len(Strip(DigitsOf(text, t, np))) : Strip(DigitsOf(text, t, np))[i] = Ch.d0

MinusPrefixedToUnsigned ==
    /\ val # NoVal
    /\ tok.sign = "Minus"
    /\ tok.notation \in {"Hex", "Octal", "Binary"}
    /\ cv.ty.min = 0

\* C16 (as claimed): for every Hex, Octal or Binary literal with sign Minus and
\* every digit string, also one of zeros only, convert_number into an unsigned
\* type fails with Numerical Underflow.
C16_MinusToUnsignedUnderflows ==
    MinusPrefixedToUnsigned => val = Numerical(tok.span, "Underflow")

\* C16 (amended): for every Hex, Octal or Binary literal with sign Minus,
\* convert_number into an unsigned type fails with Numerical Underflow when the
\* digit string holds a digit other than '0', and returns 0 when it holds zeros
\* only.
C16_MinusNonZeroToUnsignedUnderflows ==
    MinusPrefixedToUnsigned =>
        val = IF AllZero(input, tok, cfg) THEN ConvOk(0)
              ELSE Numerical(tok.span, "Underflow")

\* C16 witness: '-0xAAFF' has been converted to u16 and failed with Underflow.
C16_Witness ==
    /\ input = <<Ch.minus, Ch.d0, Ch.x, Ch.A, Ch.A, Ch.F, Ch.F>>
    /\ val # NoVal /\ cv.ty = u16
    /\ val = Numerical(tok.span, "Underflow")

(***************************************************************************)
(* Specification SpecFloat: the token of a literal with a fraction or an   *)
(* exponent is converted to an integer type chosen by the caller, as in    *)
(* tests::can_parse_float and tests::can_parse_exponent.                   *)
(***************************************************************************)
FloatWholes ==
    {<<48>>, <<49>>, <<49, 50, 55>>, <<49, 50, 56>>, <<49, 50, 57>>, <<50, 53, 53>>,
     <<50, 53, 54>>, <<51, 50, 55, 54, 55>>, <<51, 50, 55, 54, 56>>,
     <<54, 53, 53, 51, 53>>, <<54, 53, 53, 51, 54>>}

FloatFracs == {<<>>, <<Ch.dot, Ch.d0>>, <<Ch.dot, Ch.d5>>, <<Ch.dot, Ch.d9>>}

FloatExps ==
    {<<>>, <<Ch.e, Ch.d0>>, <<Ch.e, Ch.d1>>, <<Ch.E, Ch.d2>>, <<Ch.e, Ch.plus, Ch.d1>>,
     <<Ch.e, Ch.minus, Ch.d1>>, <<Ch.e, Ch.minus, Ch.d3>>}

\* '123.456' and '-123456.8e-3' of the tests, and literals with underscores
LongFloats ==
    {<<49, 50, 51, 46, 52, 53, 54>>, <<45, 49, 50, 51, 52, 53, 54, 46, 56, 101, 45, 51>>,
     <<49, 95, 50, 46, 53, 95, 101, 95, 49>>, <<45, 49, 95, 50, 56, 46, 57>>}

\* 2^63 - 1, 2^63, 2^63 + 2048, 2^64 and -(2^63 + 1), each followed by '.0'
WideFloats ==
    {<<57, 50, 50, 51, 51, 55, 50, 48, 51, 54, 56, 53, 52, 55, 55, 53, 56, 48, 55, 46, 48>>,
     <<57, 50, 50, 51, 51, 55, 50, 48, 51, 54, 56, 53, 52, 55, 55, 53, 56, 48, 56, 46, 48>>,
     <<57, 50, 50, 51, 51, 55, 50, 48, 51, 54, 56, 53, 52, 55, 55, 55, 56, 53, 54, 46, 48>>,
     <<49, 56, 52, 52, 54, 55, 52, 52, 48, 55, 51, 55, 48, 57, 53, 53, 49, 54, 49, 54, 46, 48>>,
     <<45, 57, 50, 50, 51, 51, 55, 50, 48, 51, 54, 56, 53, 52, 55, 55, 53, 56, 48, 57, 46, 48>>}

FloatInputs ==
    {t \in {s \o w \o f \o e : s \in Signs, w \in FloatWholes,
                                f \in FloatFracs, e \in FloatExps} :
        \E i \in 1..Len(t) : t[i] \in {Ch.dot, Ch.e, Ch.E}}
    \cup LongFloats \cup WideFloats

FloatTypes == Types \cup {i64, u64}

InitFloat ==
    /\ input \in FloatInputs
    /\ cfg = NumberParser_new
    /\ r = MemCharReader_new(input, Byte.SP)
    /\ tok = TokOk(SignOf(input), NotationOfText(input), Position_new, EndOf(input))
    /\ out = Call("new", None, Position_new)
    /\ seen = {} /\ cv = NoCv /\ val = NoVal
    /\ diags = NoDiags /\ added = <<>>

\* convert_number_token on the token of the literal
ConvertNumberToken ==
    /\ \E ty \in FloatTypes :
           /\ val' = convert_number(cfg, tok.span, tok.sign, tok.notation, r, ty)
           /\ cv' = [ty |-> ty]
    /\ UNCHANGED <<input, r, out, seen, cfg, tok, diags, added>>

NextFloat == ConvertNumberToken

SpecFloat == InitFloat /\ [][NextFloat]_vars

(***************************************************************************)
(* The value a literal with a fraction or an exponent denotes, in decimal: *)
(* the digits of its whole part and whether a fraction is left.            *)
(***************************************************************************)
\* the mantissa of t: what comes before the exponent marker
MantissaOf(t) == SubSeq(t, 1, FirstIndex(t, {Ch.e, Ch.E}) - 1)

ExponentTextOf(t) == SubSeq(t, FirstIndex(t, {Ch.e, Ch.E}) + 1, Len(t))

\* the number of digits after the dot
FracLen(t) ==
    LET m == MantissaOf(t)
    IN Cardinality({i \in 1..Len(m) : IsDecDigit(m[i]) /\ \E j \in 1..(i - 1) : m[j] = Ch.dot})

ExponentOf(t) ==
    LET x == ExponentTextOf(t)
        mag == Weighted(SelectSeq(x, IsDecDigit), 10, 1)
    IN IF \E i \in 1..Len(x) : x[i] = Ch.minus THEN -mag ELSE mag

\* a digit string without its leading zeros
NoLeadingZeros(ds) ==
    IF \A i \in 1..Len(ds) : ds[i] = Ch.d0 THEN <<>>
    ELSE SubSeq(ds, CHOOSE i \in 1..Len(ds) : ds[i] # Ch.d0 /\ \A j \in 1..(i - 1) : ds[j] = Ch.d0,
                Len(ds))

\* the last digit of the mantissa weighs 10^LastWeight(t)
LastWeight(t) == ExponentOf(t) - FracLen(t)

WholeDigits(t) ==
    LET ds == SelectSeq(MantissaOf(t), IsDecDigit)
    IN NoLeadingZeros(IF LastWeight(t) >= 0 THEN ds \o [i \in 1..LastWeight(t) |-> Ch.d0]
                      ELSE SubSeq(ds, 1, Len(ds) + LastWeight(t)))

HasFraction(t) ==
    LET ds == SelectSeq(MantissaOf(t), IsDecDigit)
    IN \E i \in 1..Len(ds) : i > Len(ds) + LastWeight(t) /\ ds[i] # Ch.d0

\* a > b for digit strings without leading zeros
DigitsGt(a, b) ==
    \/ Len(a) > Len(b)
    \/ /\ Len(a) = Len(b)
       /\ \E i \in 1..Len(a) : a[i] > b[i] /\ \A j \in 1..(i - 1) : a[j] = b[j]

\* the decimal digits of a model integer k > 0
DigitsOfInt(k) ==
    LET n == CHOOSE n \in 1..9 : Pow(10, n - 1) <= k /\ k < Pow(10, n)
    IN [i \in 1..n |-> Ch.d0 + ((k \div Pow(10, n - i)) % 10)]

\* the largest value of a type and the magnitude of its smallest, in decimal
MaxDigitsOf(ty) ==
    CASE ty.name = "i64" ->
             <<57, 50, 50, 51, 51, 55, 50, 48, 51, 54, 56, 53, 52, 55, 55, 53, 56, 48, 55>>
      [] ty.name = "u64" ->
             <<49, 56, 52, 52, 54, 55, 52, 52, 48, 55, 51, 55, 48, 57, 53, 53, 49, 54, 49, 53>>
      [] OTHER -> DigitsOfInt(ty.max)

MinDigitsOf(ty) ==
    CASE ty.name = "i64" ->
             <<57, 50, 50, 51, 51, 55, 50, 48, 51, 54, 56, 53, 52, 55, 55, 53, 56, 48, 56>>
      [] ty.name = "u64" -> <<>>
      [] OTHER -> IF ty.min = 0 THEN <<>> ELSE DigitsOfInt(-ty.min)

\* C21: for a Float or Exponent token whose value v is within the range of
\* the integer type asked for, convert_number returns v truncated toward
\* zero; a value below the type's minimum fails with Underflow and a value
\* above its maximum fails with Overflow.
C21_FloatTruncation ==
    (val # NoVal /\ tok.notation \in {"Float", "Exponent"}) =>
        LET t == SelectSeq(SubSeq(input, tok.span.start.offset + 1, tok.span.end.offset),
                           IsDigitChar)
            neg == SignOf(t) = "Minus"
            w == WholeDigits(t)
            below == neg /\ (DigitsGt(w, MinDigitsOf(cv.ty))
                             \/ (w = MinDigitsOf(cv.ty) /\ HasFraction(t)))
            above == ~neg /\ (DigitsGt(w, MaxDigitsOf(cv.ty))
                              \/ (w = MaxDigitsOf(cv.ty) /\ HasFraction(t)))
        IN IF below THEN val = Numerical(tok.span, "Underflow")
           ELSE IF above THEN val = Numerical(tok.span, "Overflow")
           ELSE /\ val.tag = "Ok"
                /\ val.v = IF Len(w) <= 9
                           THEN (IF neg THEN -Weighted(w, 10, 1) ELSE Weighted(w, 10, 1))
                           ELSE IntValue(neg, BitsOfDigits(w))

(***************************************************************************)
(* The diagnostics collector, multi.rs, with Severity of detail.rs.        *)
(* A diagnostic is a record [severity, code]: what add_diag reads of it    *)
(* and a code that tells two diagnostics of one severity apart.            *)
(***************************************************************************)
\* Severity, in the order of its derived Ord
Severity == [Info |-> 0, Warning |-> 1, Error |-> 2, Failure |-> 3, Critical |-> 4]

Severities == {Severity.Info, Severity.Warning, Severity.Error, Severity.Failure,
               Severity.Critical}

is_error(s) == s >= Severity.Error

\* recoverable only below Error
is_recoverable_below_error(s) == s < Severity.Error

is_recoverable(s) == s < Severity.Failure

\* the later of the two, whatever their order
latest(a, b) == b

\* std::cmp::max
max(a, b) == IF b >= a THEN b ELSE a

Diags_new == [diags |-> <<>>, max_severity |-> Severity.Info]

Errors_new(severity) == [tag |-> "Err", severity |-> severity]

DiagsOk(v) == [tag |-> "Ok", v |-> v]

\* add_diag that stores a diagnostic only when it is recoverable
add_diag_recoverable_only(ds, diag) ==
    LET m == max(ds.max_severity, diag.severity)
    IN IF is_recoverable(diag.severity)
       THEN [d |-> [diags |-> Append(ds.diags, diag), max_severity |-> m], res |-> DiagsOk(0)]
       ELSE [d |-> [diags |-> ds.diags, max_severity |-> m], res |-> Errors_new(m)]

add_diag(ds, diag) ==
    LET m == max(ds.max_severity, diag.severity)
        recover == is_recoverable(diag.severity)
        d == [diags |-> Append(ds.diags, diag), max_severity |-> m]
    IN [d |-> d, res |-> IF recover THEN DiagsOk(0) ELSE Errors_new(m)]

result(ds, v) ==
    IF is_error(ds.max_severity) THEN Errors_new(ds.max_severity) ELSE DiagsOk(v)

(***************************************************************************)
(* Specification SpecDiags: a collector, the diagnostics added to it and   *)
(* the calls of result.                                                    *)
(*   diags : the collector                                                 *)
(*   added : the diagnostics handed to add_diag so far, in call order      *)
(*   out   : the last call, its argument and what it returned              *)
(***************************************************************************)
MaxDiags == 3

DiagCodes == {1, 2}

DiagSet == [severity : Severities, code : DiagCodes]

ResultValues == {7, 8}

DiagCall(op, arg, res) == [op |-> op, arg |-> arg, res |-> res]

InitDiags ==
    /\ diags = Diags_new
    /\ added = <<>>
    /\ out = DiagCall("new", 0, DiagsOk(0))
    /\ input = <<>> /\ r = MemCharReader_new(<<>>, Byte.SP)
    /\ seen = {} /\ cfg = NoCfg /\ tok = NoTok /\ cv = NoCv /\ val = NoVal

AddDiag ==
    /\ Len(added) < MaxDiags
    /\ \E d \in DiagSet :
         LET a == add_diag(diags, d)
         IN /\ diags' = a.d
            /\ out' = DiagCall("add_diag", d, a.res)
            /\ added' = Append(added, d)
    /\ UNCHANGED <<input, r, seen, cfg, tok, cv, val>>

Result ==
    /\ \E v \in ResultValues : out' = DiagCall("result", v, result(diags, v))
    /\ UNCHANGED <<input, r, seen, cfg, tok, cv, val, diags, added>>

NextDiags == AddDiag \/ Result

SpecDiags == InitDiags /\ [][NextDiags]_vars

\* the largest severity among the diagnostics of a non-empty sequence
MaxAdded(ds) ==
    CHOOSE m \in {ds[i].severity : i \in 1..Len(ds)} :
        \A i \in 1..Len(ds) : ds[i].severity <= m

(***************************************************************************)
(* Claims about the collector, under SpecDiags.                            *)
(***************************************************************************)

\* C12: add_diag(d) returns Ok(()) exactly when d is Info, Warning or Error and
\* Err(Errors) exactly when d is Failure or Critical; the Errors carries the
\* largest severity of all diagnostics added so far, d included.
C12_AddDiagResult ==
    out.op = "add_diag" =>
        /\ out.res.tag = "Ok" <=>
               out.arg.severity \in {Severity.Info, Severity.Warning, Severity.Error}
        /\ out.res.tag = "Err" <=> out.arg.severity \in {Severity.Failure, Severity.Critical}
        /\ out.res.tag = "Err" => out.res.severity = MaxAdded(added)

\* C12 witness: a Failure added after a Critical was answered with Errors of
\* severity Critical.
C12_Witness ==
    /\ out.op = "add_diag" /\ out.arg.severity = Severity.Failure
    /\ out.res = Errors_new(Severity.Critical)
    /\ Len(added) >= 2

\* what result is to return after the diagnostics in `ds`
ResultAfter(ds, v) ==
    IF \A i \in 1..Len(ds) : ds[i].severity < Severity.Error THEN DiagsOk(v)
    ELSE Errors_new(MaxAdded(ds))

\* C13: after any sequence of add_diag calls, result(v) returns Ok(v) exactly
\* when every diagnostic added so far is below Error, and otherwise Err(Errors)
\* with the largest severity added so far; the watermark never decreases.
C13_ResultWatermark ==
    /\ [](out.op = "result" => out.res = ResultAfter(added, out.arg))
    /\ [][diags'.max_severity >= diags.max_severity]_vars

\* C13 witness: an Error was added and answered Ok, and a later result is Err.
C13_Witness ==
    /\ out.op = "result" /\ out.res = Errors_new(Severity.Error)
    /\ added # <<>> /\ added[Len(added)].severity = Severity.Error

\* C14: the stored list always equals the sequence of added diagnostics in
\* insertion order (every add_diag, also one that returns Err, appends).
C14_AppendOnly ==
    /\ [](diags.diags = added)
    /\ [][\/ diags'.diags = diags.diags
          \/ \E d \in DiagSet : diags'.diags = Append(diags.diags, d)]_vars

\* C14 witness: add_diag has returned Err and its diagnostic is the last of
\* three stored ones.
C14_Witness ==
    /\ out.op = "add_diag" /\ out.res.tag = "Err"
    /\ Len(diags.diags) = MaxDiags
    /\ diags.diags[MaxDiags] = out.arg
    /\ diags.diags[1] # diags.diags[2]

(***************************************************************************)
(* io/mod.rs: Quote.  Text is a sequence of bytes.  A quote is a record    *)
(*   [path, span, offset, line, source, message]                           *)
(* with path either NoPath or SomePath(text).                              *)
(***************************************************************************)
Sym == [lf |-> 10, cr |-> 13, sp |-> 32, dash |-> 45, colon |-> 58, gt |-> 62,
        caret |-> 94, bar |-> 124]

\* U+FFFD, as String::from_utf8_lossy writes it
REPLACEMENT == <<239, 191, 189>>

NoPath == [tag |-> "None", text |-> <<>>]
SomePath(t) == [tag |-> "Some", text |-> t]

Span_with_pos(start, end) == [start |-> start, end |-> end]

\* the bytes String::from_utf8_lossy replaces by one U+FFFD at index i
\* (1-based), where no well-formed scalar starts: the lead byte and the
\* bytes after it that could still continue a scalar
InvalidLen(bs, i) ==
    LET n == Len(bs)
        b == bs[i]
        In(k, lo, hi) == i + k <= n /\ bs[i + k] >= lo /\ bs[i + k] <= hi
        second == IF b = 224 THEN In(1, 160, 191)
                  ELSE IF b = 237 THEN In(1, 128, 159)
                  ELSE IF b = 240 THEN In(1, 144, 191)
                  ELSE IF b = 244 THEN In(1, 128, 143)
                  ELSE In(1, 128, 191)
    IN IF b < 194 \/ b > 244 THEN 1
       ELSE IF ~second THEN 1
       ELSE IF b < 224 THEN 1
       ELSE IF ~In(2, 128, 191) THEN 2
       ELSE IF b < 240 THEN 2
       ELSE 3

RECURSIVE LossyFrom(_, _)
LossyFrom(bs, i) ==
    IF i > Len(bs) THEN <<>>
    ELSE LET w == Utf8Width(bs, i)
         IN IF w > 0 THEN SubSeq(bs, i, i + w - 1) \o LossyFrom(bs, i + w)
            ELSE REPLACEMENT \o LossyFrom(bs, i + InvalidLen(bs, i))

from_utf8_lossy(bs) == LossyFrom(bs, 1)

\* Quote::new, the loop over `before`: p counts the bytes behind start.offset
\* that have been looked at.  The result is [off1, line].
RECURSIVE ScanBefore(_, _, _, _, _)
ScanBefore(data, start, lines_before, p, lines) ==
    IF p >= start.offset THEN [off1 |-> 0, line |-> 0]
    ELSE IF data[start.offset - p] = Sym.lf
    THEN IF lines < lines_before
         THEN ScanBefore(data, start, lines_before, p + 1, lines + 1)
         ELSE [off1 |-> start.offset - p, line |-> start.line - lines_before]
    ELSE ScanBefore(data, start, lines_before, p + 1, lines)

\* a scan that never meets the end of a line
ScanAfter_to_end(data, end, lines_after, p, lines) == Len(data)

\* Quote::new, the loop over `after`.  The result is off2.
RECURSIVE ScanAfter(_, _, _, _, _)
ScanAfter(data, end, lines_after, p, lines) ==
    IF end.offset + p >= Len(data) THEN Len(data)
    ELSE IF data[end.offset + p + 1] = Sym.lf
    THEN IF lines < lines_after
         THEN ScanAfter(data, end, lines_after, p + 1, lines + 1)
         ELSE end.offset + p
    ELSE ScanAfter(data, end, lines_after, p + 1, lines)

Quote_new(path, data, start, end, lines_before, lines_after, message) ==
    With(ScanBefore(data, start, lines_before, 0, 0), LAMBDA b :
        With(ScanAfter(data, end, lines_after, 0, 0), LAMBDA off2 :
            [path |-> path,
             span |-> Span_with_pos(start, end),
             offset |-> b.off1,
             line |-> b.line,
             source |-> from_utf8_lossy(SubSeq(data, b.off1 + 1, off2)),
             message |-> message]))

\* Reader::quote of MemCharReader
quote(path, rd, from, to, lines_before, lines_after, message) ==
    Quote_new(path, rd.data, from, to, lines_before, lines_after, message)

\* n.to_string() of an unsigned integer
RECURSIVE Decimal(_)
Decimal(n) == IF n < 10 THEN <<Ch.d0 + n>> ELSE Decimal(n \div 10) \o <<Ch.d0 + (n % 10)>>

Repeat(c, n) == [i \in 1..n |-> c]

\* "{0:>1$}": right-aligned in `width`, never cut
PadLeft(t, width) == Repeat(Sym.sp, width - Len(t)) \o t

\* "{0:1$}" of a string: left-aligned in `width`, never cut
PadRight(t, width) == t \o Repeat(Sym.sp, width - Len(t))

\* str::lines: the pieces between line feeds, each without a carriage return
\* at its end; no piece after a final line feed
RECURSIVE lines(_)
lines(t) ==
    IF t = <<>> THEN <<>>
    ELSE LET stop == IF \E i \in 1..Len(t) : t[i] = Sym.lf
                     THEN CHOOSE i \in 1..Len(t) : t[i] = Sym.lf /\ \A j \in 1..(i - 1) : t[j] # Sym.lf
                     ELSE Len(t) + 1
             piece == SubSeq(t, 1, stop - 1)
             line == IF piece # <<>> /\ piece[Len(piece)] = Sym.cr
                     THEN SubSeq(piece, 1, Len(piece) - 1) ELSE piece
         IN <<line>> \o lines(SubSeq(t, stop + 1, Len(t)))

\* Display for Position
Position_fmt(p) == Decimal(p.line + 1) \o <<Sym.colon>> \o Decimal(p.column + 1)

\* (x as f64).log10().ceil() for an integer x >= 1: the least k with 10^k >= x
log10_ceil(x) == CHOOSE k \in 0..10 : Pow(10, k) >= x /\ \A j \in 0..(k - 1) : Pow(10, j) < x

show_line_numbers(q) == q.path.tag = "Some" \/ q.line # 0 \/ Len(q.source) > 1

line_chars(q) ==
    IF show_line_numbers(q)
    THEN max(log10_ceil(q.line + Len(q.source) + 1), 3)
    ELSE 0

\* the header line, written when the quote has a path
header(q) ==
    IF q.path.tag = "Some"
    THEN PadLeft(<<Sym.sp, Sym.dash, Sym.dash, Sym.gt>>, line_chars(q)) \o <<Sym.sp>>
         \o q.path.text \o <<Sym.colon>> \o Position_fmt(q.span.start) \o <<Sym.lf>>
    ELSE <<>>

\* the gutter before a source line and the blank gutter before a caret row
number_gutter(q, ln) ==
    IF show_line_numbers(q)
    THEN PadLeft(Decimal(ln + 1), line_chars(q)) \o <<Sym.bar, Sym.sp>>
    ELSE <<>>

blank_gutter(q) ==
    IF show_line_numbers(q)
    THEN PadRight(<<Sym.sp>>, line_chars(q)) \o <<Sym.bar, Sym.sp>>
    ELSE <<>>

\* a caret row with a caret for the end column too
caret_row_inclusive(q) ==
    blank_gutter(q)
    \o Repeat(Sym.sp, q.span.start.column)
    \o Repeat(Sym.caret, q.span.end.column - q.span.start.column + 1)
    \o <<Sym.sp>> \o q.message \o <<Sym.lf>>

\* the row under the line of the span
caret_row(q) ==
    blank_gutter(q)
    \o Repeat(Sym.sp, q.span.start.column)
    \o Repeat(Sym.caret, q.span.end.column - q.span.start.column)
    \o <<Sym.sp>> \o q.message \o <<Sym.lf>>

\* the loop over self.source.lines(), from the i-th line on
RECURSIVE fmt_lines(_, _, _, _)
fmt_lines(q, ls, i, ln) ==
    IF i > Len(ls) THEN <<>>
    ELSE number_gutter(q, ln) \o ls[i] \o <<Sym.lf>>
         \o (IF ln = q.span.start.line /\ ln = q.span.end.line THEN caret_row(q) ELSE <<>>)
         \o fmt_lines(q, ls, i + 1, ln + 1)

\* Display for Quote
Quote_fmt(q) == header(q) \o fmt_lines(q, lines(q.source), 1, q.line)

(***************************************************************************)
(* Specification SpecQuote: a reader over a text, the positions the caller *)
(* records while it moves the reader, one quote built from two of them     *)
(* and its rendering.                                                      *)
(*   input : the text                                                      *)
(*   cfg   : the path the reader was built with, [path]                    *)
(*   r     : the reader                                                    *)
(*   seen  : the positions recorded with position() so far                 *)
(*   val   : the quote, once built                                         *)
(*   out   : the last call; for "to_string" its `res` is the rendered text *)
(***************************************************************************)
\* recorded positions per quote
MaxMarks == 2
\* seek targets lie within the last MaxTail bytes of the text
MaxTail == 8
\* skip_chars is followed up to this offset
MaxWalk == 16
\* the bytes between the two positions of a quote
MaxSpan == 16

\* "src/example.txt"
ExamplePath == <<115, 114, 99, 47, 101, 120, 97, 109, 112, 108, 101, 46, 116, 120, 116>>

\* "msg"
Msg == <<109, 115, 103>>

\* "line 1;\nline 2;\nline 3; // comment\nline 4;\n", the first lines of the
\* input of macro_diags_with_kind_and_quotes
ScenarioText == <<108, 105, 110, 101, 32, 49, 59, 10, 108, 105, 110, 101, 32, 50, 59, 10, 108, 105, 110, 101, 32, 51, 59, 32, 47, 47, 32, 99, 111, 109, 109, 101, 110, 116, 10, 108, 105, 110, 101, 32, 52, 59, 10>>

\* a text whose last two lines are its 996th and 997th
LongText == Repeat(Sym.lf, 995) \o <<Ch.a, Ch.b, Sym.lf, Ch.a, Ch.b>>

\* "", "a", "ab", "ab\n", "a\nbc\nd", "a\r\nb", "\u{105}b\nc", 'A' and a byte
\* that starts no scalar
ShortTexts ==
    {<<>>, <<Ch.a>>, <<Ch.a, Ch.b>>, <<Ch.a, Ch.b, Sym.lf>>,
     <<Ch.a, Sym.lf, Ch.b, Ch.a, Sym.lf, Ch.b>>,
     <<Ch.a, Sym.cr, Sym.lf, Ch.b>>,
     <<196, 133, Ch.b, Sym.lf, Ch.a>>,
     <<Byte.A, Byte.Bad>>}

QuoteTexts == ShortTexts \cup {ScenarioText, LongText}

Paths == {NoPath, SomePath(ExamplePath)}

\* lines_before and lines_after; parse_diag! passes 2 and 2
Contexts == {<<0, 0>>, <<1, 0>>, <<0, 1>>, <<2, 2>>}

\* the skips of macro_diags_with_kind_and_quotes
Skips == {7, 9}

\* the position a reader has at offset k of the text: Position::with of the
\* offset, its line and its column
PositionAt(bs, k) == [offset |-> k, line |-> LinesBefore(bs, k), column |-> ColumnsBefore(bs, k)]

\* the offsets within the last MaxTail bytes at which a scalar of the line
\* begins or the text ends
SeekOffsets(bs) ==
    {k \in 0..Len(bs) :
        /\ k >= Len(bs) - MaxTail
        /\ LET from == IF \E i \in 1..k : bs[i] = Sym.lf
                       THEN CHOOSE i \in 1..k : bs[i] = Sym.lf /\ \A j \in (i + 1)..k : bs[j] # Sym.lf
                       ELSE 0
           IN Utf8Valid(SubSeq(bs, from + 1, k))}

InitQuote ==
    /\ input \in QuoteTexts
    /\ \E path \in Paths : cfg = [path |-> path]
    /\ r = MemCharReader_new(input, Byte.SP)
    /\ seen = {}
    /\ val = NoVal
    /\ out = Call("new", None, Position_new)
    /\ tok = NoTok /\ cv = NoCv /\ diags = NoDiags /\ added = <<>>

\* r.skip_chars(k).unwrap(); let p = r.position();
QSkipChars ==
    /\ val = NoVal /\ Cardinality(seen) < MaxMarks
    /\ \E k \in Skips :
         /\ r.pos.offset + k <= MaxWalk
         /\ LET n == skip_chars(r, k)
            IN /\ ~IsErr(n.res)
               /\ n.r.pos.offset <= Len(n.r.data)
               /\ r' = n.r
               /\ out' = Call("skip_chars", n.res, position(n.r))
               /\ seen' = seen \cup {position(n.r)}
    /\ UNCHANGED <<input, cfg, tok, cv, val, diags, added>>

\* r.seek(p); let p = r.position();
QSeek ==
    /\ val = NoVal /\ Cardinality(seen) < MaxMarks
    /\ \E k \in SeekOffsets(r.data) :
         LET p == PositionAt(r.data, k)
         IN /\ r' = seek(r, p)
            /\ out' = Call("seek", None, p)
            /\ seen' = seen \cup {p}
    /\ UNCHANGED <<input, cfg, tok, cv, val, diags, added>>

\* r.quote(from, to, lines_before, lines_after, "msg")
MakeQuote ==
    /\ val = NoVal
    /\ \E from \in seen, to \in seen, c \in Contexts :
         /\ from.offset <= to.offset /\ to.offset - from.offset <= MaxSpan
         /\ val' = quote(cfg.path, r, from, to, c[1], c[2], Msg)
         /\ out' = Call("quote", None, position(r))
    /\ UNCHANGED <<input, r, seen, cfg, tok, cv, diags, added>>

\* quote.to_string()
Quote_to_string ==
    /\ val # NoVal
    /\ out' = Call("to_string", Quote_fmt(val), position(r))
    /\ UNCHANGED <<input, r, seen, cfg, tok, cv, val, diags, added>>

NextQuote == QSkipChars \/ QSeek \/ MakeQuote \/ Quote_to_string

SpecQuote == InitQuote /\ [][NextQuote]_vars

(***************************************************************************)
(* Claims about quote rendering, under SpecQuote.                          *)
(***************************************************************************)
Contains(t, part) ==
    \E i \in 1..(Len(t) - Len(part) + 1) : SubSeq(t, i, i + Len(part) - 1) = part

StartsWith(t, part) == Len(part) <= Len(t) /\ SubSeq(t, 1, Len(part)) = part

\* `rows` stands in the text from the start of one of its lines on
ContainsRows(t, rows) ==
    \E i \in 1..(Len(t) - Len(rows) + 1) :
        /\ i = 1 \/ t[i - 1] = Sym.lf
        /\ SubSeq(t, i, i + Len(rows) - 1) = rows

\* the lines of the span are lines of the snippet
SpanInsideSnippet(q) ==
    /\ q.line <= q.span.start.line
    /\ q.span.start.line <= q.span.end.line
    /\ q.span.end.line <= q.line + Len(lines(q.source)) - 1

SpanOnOneLine(q) == SpanInsideSnippet(q) /\ q.span.start.line = q.span.end.line

\* the snippet line with the zero-based line number ln
SnippetLine(q, ln) == lines(q.source)[ln - q.line + 1]

\* section 4.E: header and gutter are omitted only without a path, with the
\* snippet starting on line 0 and one line long
GutterDue(q) == q.path.tag = "Some" \/ q.line # 0 \/ Len(lines(q.source)) > 1

\* a numbered source line and the caret row under it, with a gutter w wide
NumberedRows(q, w) ==
    LET ln == q.span.start.line
    IN PadLeft(Decimal(ln + 1), w) \o <<Sym.bar, Sym.sp>> \o SnippetLine(q, ln) \o <<Sym.lf>>
       \o Repeat(Sym.sp, w) \o <<Sym.bar, Sym.sp>>
       \o Repeat(Sym.sp, q.span.start.column)
       \o Repeat(Sym.caret, q.span.end.column - q.span.start.column)
       \o <<Sym.sp>> \o q.message \o <<Sym.lf>>

\* the positions of macro_diags_with_kind_and_quotes: after skip_chars(9) and
\* after skip_chars(7) more
ScenarioP1 == position(skip_chars(MemCharReader_new(ScenarioText, Byte.SP), 9).r)
ScenarioP2 ==
    position(skip_chars(skip_chars(MemCharReader_new(ScenarioText, Byte.SP), 9).r, 7).r)

\* "  2| line 2;\n   | ^^^^^^^ msg\n"
ScenarioRows == <<32, 32, 50, 124, 32, 108, 105, 110, 101, 32, 50, 59, 10, 32, 32, 32, 124, 32, 94, 94, 94, 94, 94, 94, 94, 32, 109, 115, 103, 10>>

HasCaretRow(t, q) == Contains(t, <<Sym.sp>> \o q.message \o <<Sym.lf>>)

\* C27: quote rendering emits a caret row under every snippet line that
\* overlaps the quoted span, also when the span starts and ends on different
\* lines; so for every quote whose span lines are inside the snippet the
\* message appears in the rendering at least once.
C27_CaretRowForEverySpan ==
    out.op = "to_string" /\ SpanInsideSnippet(val) => HasCaretRow(out.res, val)

\* the one-based number of the last line of the snippet
LastLineNumber(q) == q.line + Len(lines(q.source))

\* max(3, decimal digits of the last line number)
GutterWidth(q) == max(3, Len(Decimal(LastLineNumber(q))))

\* C28: in a rendered quote with a gutter, line numbers are right-aligned in a
\* width equal to max(3, number of decimal digits needed for the last line
\* number of the snippet), a function of the snippet's line numbers only and
\* independent of how many bytes the snippet text has: every snippet line
\* stands in the rendering behind its number padded to that width and '| '.
C28_GutterWidth ==
    out.op = "to_string" /\ GutterDue(val) =>
        \A i \in 1..Len(lines(val.source)) :
            ContainsRows(out.res,
                         PadLeft(Decimal(val.line + i), GutterWidth(val))
                         \o <<Sym.bar, Sym.sp>> \o lines(val.source)[i] \o <<Sym.lf>>)

\* C29: a quote with no path, whose snippet starts on line 0 and is one line
\* long (of any length), is rendered without the '-->' header and without the
\* line-number gutter: the source line is printed bare.
C29_BareSingleLine ==
    out.op = "to_string" /\ val.path = NoPath /\ val.line = 0 /\ Len(lines(val.source)) = 1 =>
        /\ StartsWith(out.res, lines(val.source)[1] \o <<Sym.lf>>)
        /\ ~Contains(out.res, <<Sym.bar, Sym.sp>>)

(***************************************************************************)
(* diag.rs: BasicDiag, SimpleDiag, ParseDiag and their Display, with the   *)
(* Display and code_char of Severity (detail.rs).  A detail is a record    *)
(*   [severity, code, text]   (text: what its own Display writes),         *)
(* a diagnostic a record [kind, detail, quotes, cause, stacktrace], a      *)
(* stack trace the text its Display writes.                                *)
(***************************************************************************)
\* #[display(...)] of Severity
Severity_fmt(s) ==
    IF s = Severity.Info THEN <<105, 110, 102, 111>>
    ELSE IF s = Severity.Warning THEN <<119, 97, 114, 110, 105, 110, 103>>
    ELSE IF s = Severity.Error THEN <<101, 114, 114, 111, 114>>
    ELSE IF s = Severity.Failure THEN <<101, 114, 114, 111, 114>>
    ELSE <<99, 114, 105, 116, 105, 99, 97, 108, 32, 101, 114, 114, 111, 114>>

\* a code letter that follows the display word: 'E' for Failure too
code_char_of_word(s) ==
    IF s = Severity.Info THEN 73
    ELSE IF s = Severity.Warning THEN 87
    ELSE IF s = Severity.Error THEN 69
    ELSE IF s = Severity.Failure THEN 69
    ELSE 67

\* Severity::code_char: 'I', 'W', 'E', 'F', 'C'
code_char(s) ==
    IF s = Severity.Info THEN 73
    ELSE IF s = Severity.Warning THEN 87
    ELSE IF s = Severity.Error THEN 69
    ELSE IF s = Severity.Failure THEN 70
    ELSE 67

\* "{:04}" of a u32
PadZero4(n) == Repeat(Ch.d0, 4 - Len(Decimal(n))) \o Decimal(n)

NoCause == [tag |-> "None"]
SomeCause(d) == [tag |-> "Some", diag |-> d]
NoStacktrace == [tag |-> "None", text |-> <<>>]
SomeStacktrace(t) == [tag |-> "Some", text |-> t]

\* new, with_cause, with_stacktrace and with_cause_stacktrace of the three
\* kinds; quotes is the empty Vec (and no field of BasicDiag and SimpleDiag)
Diag_with(kind, detail, cause, stacktrace) ==
    [kind |-> kind, detail |-> detail, quotes |-> <<>>, cause |-> cause,
     stacktrace |-> stacktrace]

\* ParseDiag::add_quote
add_quote(d, q) == [d EXCEPT !.quotes = Append(@, q)]

\* Display for Stacktrace
Stacktrace_fmt(st) == st.text

RECURSIVE quotes_fmt(_, _)
quotes_fmt(qs, i) == IF i > Len(qs) THEN <<>> ELSE Quote_fmt(qs[i]) \o quotes_fmt(qs, i + 1)

\* the first line of <dyn Diag>::display
head_line(d) ==
    Severity_fmt(d.detail.severity) \o <<Sym.sp, 91, code_char(d.detail.severity)>>
    \o PadZero4(d.detail.code) \o <<93, Sym.colon, Sym.sp>> \o d.detail.text \o <<Sym.lf>>

\* <dyn Diag>::display
RECURSIVE Diag_display(_)
Diag_display(d) ==
    head_line(d)
    \o (IF d.kind = "ParseDiag" THEN quotes_fmt(d.quotes, 1) ELSE <<>>)
    \o (IF d.cause.tag = "Some" THEN <<99, 97, 117, 115, 101, 100, 32, 98, 121, 58, 32>> \o Diag_display(d.cause.diag) ELSE <<>>)
    \o (IF d.stacktrace.tag = "Some" THEN Stacktrace_fmt(d.stacktrace) ELSE <<>>)

(***************************************************************************)
(* Specification SpecShow: a diagnostic is built from a detail, with or    *)
(* without a cause, given quotes, and displayed.                           *)
(*   val : the diagnostic built so far                                     *)
(*   out : the last call; for "to_string" its `res` is the text            *)
(***************************************************************************)
\* diagnostics chained as causes below the outermost
MaxCauses == 2
\* quotes per ParseDiag
MaxQuotes == 2

\* codes of one, two and five digits
DetailCodes == {0, 42, 12345}

\* "empty", the text of TestErrorKind::ErrorEmpty
DetailTexts == {<<101, 109, 112, 116, 121>>}

Details == [severity : Severities, code : DetailCodes, text : DetailTexts]

DiagKinds == {"BasicDiag", "SimpleDiag", "ParseDiag"}

\* no stack trace (new, and From in release builds) or a captured one
\* (with_stacktrace, and From in debug builds)
Stacktraces == {NoStacktrace, SomeStacktrace(<<35, 48, 10>>)}

\* the quote of macro_diags_with_kind_and_quotes and a quote of the text "a"
ShownQuotes ==
    {Quote_new(SomePath(ExamplePath), ScenarioText, ScenarioP1, ScenarioP2, 2, 2, Msg),
     Quote_new(NoPath, <<Ch.a>>, Position_new, Position_new, 0, 0, Msg)}

\* the diagnostics handed over as causes: a ParseDiag with a quote and a stack
\* trace, and chains of SimpleDiags above it up to MaxCauses diagnostics long
RECURSIVE CauseChain(_)
CauseChain(n) ==
    IF n <= 1
    THEN add_quote(Diag_with("ParseDiag", [severity |-> Severity.Warning, code |-> 7, text |-> <<112, 97, 105, 114>>],
                             NoCause, SomeStacktrace(<<35, 49, 10>>)),
                   Quote_new(NoPath, <<Ch.a>>, Position_new, Position_new, 0, 0, Msg))
    ELSE Diag_with("SimpleDiag", [severity |-> Severity.Critical, code |-> 1000 + n, text |-> <<112, 97, 105, 114>>],
                   SomeCause(CauseChain(n - 1)), NoStacktrace)

Causes ==
    {CauseChain(n) : n \in 1..MaxCauses}
    \cup {Diag_with("BasicDiag", [severity |-> Severity.Info, code |-> 0, text |-> <<101, 109, 112, 116, 121>>],
                    NoCause, NoStacktrace)}

InitShow ==
    /\ val = NoVal
    /\ out = Call("none", None, Position_new)
    /\ input = <<>> /\ r = MemCharReader_new(<<>>, Byte.SP) /\ seen = {}
    /\ cfg = NoCfg /\ tok = NoTok /\ cv = NoCv /\ diags = NoDiags /\ added = <<>>

\* BasicDiag / SimpleDiag / ParseDiag ::new, ::with_stacktrace, ::from
DiagNew ==
    /\ val = NoVal
    /\ \E kind \in DiagKinds, detail \in Details, st \in Stacktraces :
         /\ val' = Diag_with(kind, detail, NoCause, st)
         /\ out' = Call("new", None, Position_new)
    /\ UNCHANGED <<input, r, seen, cfg, tok, cv, diags, added>>

\* ::with_cause, ::with_cause_stacktrace
DiagWithCause ==
    /\ val = NoVal
    /\ \E kind \in DiagKinds, detail \in Details, st \in Stacktraces, cause \in Causes :
         /\ val' = Diag_with(kind, detail, SomeCause(cause), st)
         /\ out' = Call("with_cause", None, Position_new)
    /\ UNCHANGED <<input, r, seen, cfg, tok, cv, diags, added>>

\* ParseDiag::add_quote
AddQuote ==
    /\ val # NoVal /\ val.kind = "ParseDiag" /\ Len(val.quotes) < MaxQuotes
    /\ \E q \in ShownQuotes :
         /\ val' = add_quote(val, q)
         /\ out' = Call("add_quote", None, Position_new)
    /\ UNCHANGED <<input, r, seen, cfg, tok, cv, diags, added>>

\* diag.to_string()
DiagToString ==
    /\ val # NoVal
    /\ out' = Call("to_string", Diag_display(val), Position_new)
    /\ UNCHANGED <<input, r, seen, cfg, tok, cv, val, diags, added>>

NextShow == DiagNew \/ DiagWithCause \/ AddQuote \/ DiagToString

SpecShow == InitShow /\ [][NextShow]_vars

(***************************************************************************)
(* Claims about the display of diagnostics, under SpecShow.                *)
(***************************************************************************)
\* the display word and the letter of a severity, by the name of the variant
SeverityWord(s) ==
    CASE s = Severity.Info -> <<105, 110, 102, 111>>
      [] s = Severity.Warning -> <<119, 97, 114, 110, 105, 110, 103>>
      [] s \in {Severity.Error, Severity.Failure} -> <<101, 114, 114, 111, 114>>
      [] s = Severity.Critical -> <<99, 114, 105, 116, 105, 99, 97, 108, 32, 101, 114, 114, 111, 114>>

\* "IWEFC"
SeverityLetter(s) == <<73, 87, 69, 70, 67>>[s + 1]

\* the last four decimal digits of c, all the digits of a longer code
FourDigits(c) ==
    IF c < 10000
    THEN <<Ch.d0 + (c \div 1000), Ch.d0 + ((c \div 100) % 10), Ch.d0 + ((c \div 10) % 10),
           Ch.d0 + (c % 10)>>
    ELSE Decimal(c)

\* '<word> [<L><code>]: ' and the detail's text
DiagPrefix(d) ==
    SeverityWord(d.detail.severity) \o <<32, 91>> \o <<SeverityLetter(d.detail.severity)>>
    \o FourDigits(d.detail.code) \o <<93, 58, 32>> \o d.detail.text

\* the parts after the first line, in the order of section 4.F
RECURSIVE DiagParts(_)
DiagParts(d) ==
    DiagPrefix(d) \o <<Sym.lf>>
    \o quotes_fmt(d.quotes, 1)
    \o (IF d.cause.tag = "Some" THEN <<99, 97, 117, 115, 101, 100, 32, 98, 121, 58, 32>> \o DiagParts(d.cause.diag) ELSE <<>>)
    \o d.stacktrace.text

\* C30: for every detail with severity s and code c, the Display output of a
\* BasicDiag, SimpleDiag or ParseDiag built from it begins with
\* '<word> [<L><c zero-padded to four digits>]: ' followed by the detail's own
\* text, where L is the letter I, W, E, F or C of s and word is the display
\* word of s; the quotes (if any), then 'caused by: ' and the cause rendered
\* recursively, then the stack trace follow in that order.
C30_DiagDisplay ==
    out.op = "to_string" =>
        /\ StartsWith(out.res, DiagPrefix(val))
        /\ out.res = DiagParts(val)

\* C30 witness: a ParseDiag of severity Failure and code 42, with a quote, a
\* cause and a stack trace, has been displayed.
C30_Witness ==
    /\ out.op = "to_string"
    /\ val.kind = "ParseDiag" /\ val.detail.severity = Severity.Failure /\ val.detail.code = 42
    /\ Len(val.quotes) = 1 /\ val.cause.tag = "Some" /\ val.stacktrace.tag = "Some"
    /\ StartsWith(out.res, <<101, 114, 114, 111, 114, 32, 91, 70, 48, 48, 52, 50, 93, 58, 32, 101, 109, 112, 116, 121, 10, 32, 45, 45, 62, 32, 115, 114, 99, 47, 101, 120, 97, 109, 112, 108, 101, 46, 116, 120, 116, 58, 50, 58, 49, 10>>)

(***************************************************************************)
(* kg-diag-derive: detail_derive, the assignment of codes to the variants  *)
(* of an enumeration.  A variant is [tag, code]: its explicit `code = N`   *)
(* or none.  The state of the loop over the variants is                    *)
(*   [code, attrs]                                                         *)
(* with `code` the code the next variant gets by default and `attrs` the   *)
(* codes assigned so far.                                                  *)
(***************************************************************************)
NoCode == [tag |-> "None", code |-> 0]
SomeCode(n) == [tag |-> "Some", code |-> n]

\* before the loop: let mut code = code_offset + 1
derive_start(code_offset) == [code |-> code_offset + 1, attrs |-> <<>>]

\* one turn of the loop over st.variants_mut()
derive_variant(st, code_offset, v) ==
    LET a == IF v.tag = "Some" THEN code_offset + v.code ELSE st.code
    IN [code |-> IF a > st.code THEN a + 1 ELSE st.code + 1, attrs |-> Append(st.attrs, a)]

\* the loops over attrs after it: two variants with one code panic
duplicated_code(attrs) ==
    \E i \in 1..Len(attrs), j \in 1..Len(attrs) : i # j /\ attrs[i] = attrs[j]

(***************************************************************************)
(* Specification SpecDerive: the derive runs over an enumeration, one      *)
(* variant per step, then looks for duplicated codes.                      *)
(*   cfg   : [code_offset], the container attribute                        *)
(*   input : the variants met so far                                       *)
(*   val   : the state of the loop                                         *)
(*   out   : the last step; after "check" its res tells whether the        *)
(*           derive panicked                                               *)
(***************************************************************************)
\* variants per enumeration
MaxVariants == 4

CodeOffsets == {0, 1000}

\* explicit codes
VariantCodes == {NoCode} \cup {SomeCode(n) : n \in 0..4}

InitDerive ==
    /\ \E o \in CodeOffsets : cfg = [code_offset |-> o]
    /\ input = <<>>
    /\ val = derive_start(cfg.code_offset)
    /\ out = [op |-> "start", res |-> "Ok"]
    /\ r = MemCharReader_new(<<>>, Byte.SP) /\ seen = {}
    /\ tok = NoTok /\ cv = NoCv /\ diags = NoDiags /\ added = <<>>

DeriveVariant ==
    /\ out.op # "check" /\ Len(input) < MaxVariants
    /\ \E v \in VariantCodes :
         /\ input' = Append(input, v)
         /\ val' = derive_variant(val, cfg.code_offset, v)
         /\ out' = [op |-> "variant", res |-> "Ok"]
    /\ UNCHANGED <<r, seen, cfg, tok, cv, diags, added>>

DeriveCheck ==
    /\ out.op # "check"
    /\ out' = [op |-> "check", res |-> IF duplicated_code(val.attrs) THEN "Panic" ELSE "Ok"]
    /\ UNCHANGED <<input, r, seen, cfg, tok, cv, val, diags, added>>

NextDerive == DeriveVariant \/ DeriveCheck

SpecDerive == InitDerive /\ [][NextDerive]_vars

\* the largest of a non-empty sequence of codes
MaxCode(cs) == CHOOSE m \in {cs[i] : i \in 1..Len(cs)} : \A i \in 1..Len(cs) : cs[i] <= m

\* C31: in the Detail derive, a variant that omits code receives (maximum of
\* the codes given to all earlier variants) + 1, and code_offset + 1 when it is
\* the first variant; this holds for every order of explicit codes, including
\* when an earlier variant has an explicit code lower than one before it
\* (explicit 3, explicit 1, omitted gives 4 for the third, before offset).
C31_OmittedCodeIsMaxPlusOne ==
    out = [op |-> "check", res |-> "Ok"] =>
        \A i \in 1..Len(input) :
            input[i].tag = "None" =>
                val.attrs[i] = IF i = 1 THEN cfg.code_offset + 1
                               ELSE MaxCode(SubSeq(val.attrs, 1, i - 1)) + 1


(***************************************************************************)
(* MemByteReader: the byte reader over a buffer in memory.  It keeps the   *)
(* position and `left`, the bytes still due of the scalar being read.      *)
(* past and oob are as for MemCharReader: the byte an unchecked read finds *)
(* beyond the buffer, and whether such a read was made.                    *)
(***************************************************************************)
MemByteReader_new(in, past) ==
    [data |-> in, pos |-> Position_new, left |-> 0, past |-> past, oob |-> FALSE]

\* Reader::seek of MemByteReader: the position is replaced, `left` is kept.
MemByteReader_seek(rd, p) == [rd EXCEPT !.pos = p]

\* the continuation test of next_byte: the byte b read while `left` > 0 is
\* taken for a byte of the scalar when it is 0b11000000 or more
continues_scalar(b) == b >= 192

\* ByteReader::next_byte of MemByteReader.  The offset moves before the byte
\* is looked at, so it has moved when the call fails.
next_byte(rd) ==
    IF rd.pos.offset < Len(rd.data)
    THEN LET off == rd.pos.offset
             b == get_unchecked(rd, off)
             r1 == [rd EXCEPT !.pos.offset = off + 1]
         IN IF rd.left = 0
            THEN IF b = Byte.LF
                 THEN [r |-> [r1 EXCEPT !.left = 0, !.pos = inc_line(r1.pos)], res |-> Some(b)]
                 ELSE IF b < 128
                 THEN [r |-> [r1 EXCEPT !.left = 0, !.pos = inc_column(r1.pos)], res |-> Some(b)]
                 ELSE IF b < 192 THEN [r |-> r1, res |-> Err(encoding_err(r1, 1))]
                 ELSE IF b < 224 THEN [r |-> [r1 EXCEPT !.left = 1], res |-> Some(b)]
                 ELSE IF b < 240 THEN [r |-> [r1 EXCEPT !.left = 2], res |-> Some(b)]
                 ELSE IF b <= 244 THEN [r |-> [r1 EXCEPT !.left = 3], res |-> Some(b)]
                 ELSE [r |-> r1, res |-> Err(encoding_err(r1, 3))]
            ELSE IF continues_scalar(b)
                 THEN [r |-> [r1 EXCEPT !.left = @ - 1], res |-> Some(b)]
                 ELSE [r |-> r1, res |-> Err(encoding_err(r1, r1.left))]
    ELSE IF rd.left > 0 THEN [r |-> rd, res |-> Err(eof_err(rd))]
    ELSE [r |-> rd, res |-> None]

\* ByteReader::peek_byte of MemByteReader.
peek_byte(rd, lookahead) ==
    LET offset == rd.pos.offset + lookahead
    IN IF offset < Len(rd.data) THEN Some(get_unchecked(rd, offset)) ELSE None

\* the clone of peek_byte_pos after `lookahead` next_byte calls, or the
\* result that ends the loop early
RECURSIVE byte_steps(_, _)
byte_steps(rd, n) ==
    IF n = 0 THEN [r |-> rd, res |-> Some(0)]
    ELSE LET s == next_byte(rd)
         IN IF IsErr(s.res) \/ s.res.tag = "None" THEN s ELSE byte_steps(s.r, n - 1)

\* the last read of peek_byte_pos with a lookahead above 0: get_unchecked at
\* the clone's offset
peek_at(rd, c) ==
    [r |-> Touch(rd, c.pos.offset), res |-> Some(get_unchecked(c, c.pos.offset)),
     pos |-> c.pos]

\* ByteReader::peek_byte_pos of MemByteReader: the result, the position in
\* it, and the reader with the mark of a read beyond the buffer.
peek_byte_pos(rd, lookahead) ==
    IF lookahead = 0
    THEN IF rd.pos.offset < Len(rd.data)
         THEN [r |-> rd, res |-> Some(get_unchecked(rd, rd.pos.offset)), pos |-> rd.pos]
         ELSE [r |-> rd, res |-> None, pos |-> rd.pos]
    ELSE LET s == byte_steps(rd, lookahead)
         IN IF IsErr(s.res) \/ s.res.tag = "None"
            THEN [r |-> rd, res |-> s.res, pos |-> rd.pos]
            ELSE peek_at(rd, s.r)

\* ByteReader::skip_bytes of MemByteReader: a call that meets the end of
\* input goes on to the next.
RECURSIVE skip_bytes(_, _)
skip_bytes(rd, n) ==
    IF n = 0 THEN [r |-> rd, res |-> None]
    ELSE LET s == next_byte(rd)
         IN IF IsErr(s.res) THEN s ELSE skip_bytes(s.r, n - 1)

(***************************************************************************)
(* The byte reader under every sequence of at most MaxCalls calls that     *)
(* move it.  `added` is the sequence of the results of the next_byte       *)
(* calls; cv.forward holds as long as no other call moved the reader.      *)
(***************************************************************************)
MaxCalls == 4

ByteAlphabet == {Byte.A, Byte.LF, Byte.Cont, Byte.Lead2, Byte.Bad}

ByteInputs ==
    SeqsUpTo(ByteAlphabet, MaxLen)
    \cup {<<65, 66, 10, 65>>, <<65, 10, 196, 133>>, <<196, 133, 65>>, <<232, 128, 129>>,
          <<240, 159, 152, 128>>, <<196, 196, 65>>, <<65, 66, 67>>, <<65, 196, 133>>}

InitBytes ==
    /\ input \in ByteInputs
    /\ \E past \in PastBytes : r = MemByteReader_new(input, past)
    /\ out = Call("new", None, Position_new)
    /\ seen = {Position_new}
    /\ cv = [forward |-> TRUE, calls |-> 0]
    /\ added = <<>>
    /\ cfg = NoCfg /\ tok = NoTok /\ val = NoVal /\ diags = NoDiags

NextByte ==
    /\ cv.calls < MaxCalls
    /\ LET n == next_byte(r)
       IN /\ r' = n.r
          /\ out' = Call("next_byte", n.res, n.r.pos)
          /\ seen' = seen \cup {n.r.pos}
          /\ added' = Append(added, n.res)
    /\ cv' = [cv EXCEPT !.calls = @ + 1]
    /\ UNCHANGED <<input, cfg, tok, val, diags>>

PeekByte ==
    /\ \E k \in 0..MaxLook :
         out' = [op |-> "peek_byte", res |-> peek_byte(r, k), pos |-> r.pos, k |-> k]
    /\ UNCHANGED <<input, r, seen, cfg, tok, cv, val, diags, added>>

PeekBytePos ==
    /\ \E k \in 0..MaxLook :
         LET n == peek_byte_pos(r, k)
         IN /\ r' = n.r
            /\ out' = [op |-> "peek_byte_pos", res |-> n.res, pos |-> n.pos, k |-> k]
    /\ UNCHANGED <<input, seen, cfg, tok, cv, val, diags, added>>

SkipBytes ==
    /\ cv.calls < MaxCalls
    /\ \E k \in 1..MaxLook :
         LET n == skip_bytes(r, k)
         IN /\ r' = n.r
            /\ out' = Call("skip_bytes", n.res, n.r.pos)
            /\ seen' = seen \cup {n.r.pos}
    /\ cv' = [forward |-> FALSE, calls |-> cv.calls + 1]
    /\ UNCHANGED <<input, cfg, tok, val, diags, added>>

ByteSeek ==
    /\ cv.calls < MaxCalls
    /\ \E p \in seen :
         /\ r' = MemByteReader_seek(r, p)
         /\ out' = Call("seek", None, p)
    /\ cv' = [forward |-> FALSE, calls |-> cv.calls + 1]
    /\ UNCHANGED <<input, seen, cfg, tok, val, diags, added>>

NextBytes == NextByte \/ PeekByte \/ PeekBytePos \/ SkipBytes \/ ByteSeek

SpecBytes == InitBytes /\ [][NextBytes]_vars

(***************************************************************************)
(* Claims about the byte reader, under SpecBytes.                          *)
(***************************************************************************)

\* the scalars that end within the first k bytes of a valid buffer, after the
\* last line feed among them
CompleteScalars(bs, k) ==
    LET lf == {i \in 1..k : bs[i] = Byte.LF}
        start == IF lf = {} THEN 0 ELSE CHOOSE i \in lf : \A j \in lf : j <= i
    IN Cardinality({e \in (start + 1)..k : Utf8Valid(SubSeq(bs, 1, e))})

\* C32 (as claimed): position tracking of MemByteReader.  Over a valid UTF-8
\* buffer, after k next_byte calls from the start (k up to the length of the
\* buffer) the offset is k, the number of bytes read, the line is the number
\* of line feeds among them, and the column is the number of complete
\* scalars, of one byte or more, among them since the last line feed.
C32_PositionTracksScalars ==
    (cv.forward /\ Utf8Valid(input) /\ Len(added) <= Len(input)) =>
        LET k == Len(added)
        IN /\ r.pos.offset = k
           /\ r.pos.line = LinesBefore(input, k)
           /\ r.pos.column = CompleteScalars(input, k)

\* the first k bytes of bs follow the UTF-8 grammar as far as they go: whole
\* scalars, then possibly the beginning of one
RECURSIVE GrammarFrom(_, _, _)
GrammarFrom(bs, i, k) ==
    \/ i > k
    \/ /\ LeadWidth(bs[i]) > 0
       /\ \A j \in (i + 1)..(i + LeadWidth(bs[i]) - 1) : j <= k => (bs[j] >= 128 /\ bs[j] < 192)
       /\ GrammarFrom(bs, i + LeadWidth(bs[i]), k)

\* the bytes read by k next_byte calls violate the grammar: one of the bytes
\* is illegal where it stands, or the k-th call met the end of the buffer
\* inside a scalar
GrammarViolated(bs, k) ==
    IF k <= Len(bs) THEN ~GrammarFrom(bs, 1, k)
    ELSE ~GrammarFrom(bs, 1, Len(bs)) \/ ~Utf8Valid(bs)

\* C33 (as claimed): next_byte fails with a UTF-8 error exactly when the
\* bytes read so far violate the UTF-8 grammar.  For a reader read forward
\* from the start whose earlier calls all succeeded, the last call failed if
\* and only if the bytes read with it violate the grammar; so every byte of a
\* valid buffer is returned, and a leading byte followed by a byte that is
\* not 10xxxxxx fails.
C33_ErrorIffGrammarViolated ==
    (/\ cv.forward /\ out.op = "next_byte"
     /\ \A i \in 1..(Len(added) - 1) : ~IsErr(added[i])) =>
        (IsErr(out.res) <=> GrammarViolated(input, Len(added)))

\* the results of `fuel` successive next_byte calls
RECURSIVE ByteStream(_, _)
ByteStream(rd, fuel) ==
    IF fuel = 0 THEN <<>>
    ELSE LET n == next_byte(rd)
         IN <<n.res>> \o ByteStream(n.r, fuel - 1)

\* a reader that read forward from the start to offset k
Forward(bs, past, k) == byte_steps(MemByteReader_new(bs, past), k)

\* p is a scalar boundary a reader reaches by reading forward from the start
ForwardBoundary(bs, past, p) ==
    /\ p.offset <= Len(bs)
    /\ LET f == Forward(bs, past, p.offset)
       IN f.res.tag = "Some" /\ f.r.pos = p /\ f.r.left = 0

\* C34 (as claimed): seek discards the cached decoding state.  Right after
\* seek(p) to a scalar boundary the reader observed, the following next_byte
\* calls return what they return from a reader that read forward from the
\* start to p, whatever was read before the seek.
C34_SeekDiscardsState ==
    (out.op = "seek" /\ ForwardBoundary(input, r.past, out.pos)) =>
        ByteStream(r, MaxLook) = ByteStream(Forward(input, r.past, out.pos.offset).r, MaxLook)

\* C39 (as claimed): peek_byte_pos(k) agrees with peek_byte(k) on ASCII input,
\* for every k and every position of the reader: None when fewer than k + 1
\* bytes remain, otherwise the byte at offset + k with the position of that
\* byte; no read is made at an index at or beyond the length of the buffer,
\* and the reader does not move.
C39_PeekBytePosAgrees ==
    ((\A i \in 1..Len(input) : input[i] < 128) /\ r.left = 0 /\ ~r.oob) =>
        \A k \in 0..MaxLook :
            LET n == peek_byte_pos(r, k)
            IN /\ n.res = peek_byte(r, k)
               /\ n.res.tag = "Some" => n.pos = PositionAt(input, r.pos.offset + k)
               /\ ~n.r.oob
               /\ n.r.pos = r.pos

(***************************************************************************)
(* The converter over the literals of every notation: those of SpecConv    *)
(* and those of SpecFloat.                                                 *)
(***************************************************************************)
InitLiteral == InitConv \/ InitFloat

\* convert_number on a token of an integer notation, to a type of 8 or 16 bits
ConvertInteger == tok.notation \in IntNotations /\ ConvertNumber

\* convert_number_token on a Float or Exponent token, to a type of up to 64 bits
ConvertFloat == tok.notation \notin IntNotations /\ ConvertNumberToken

NextLiteral == ConvertInteger \/ ConvertFloat

SpecLiteral == InitLiteral /\ [][NextLiteral]_vars

\* the outcome of a conversion without the span of the error
Outcome(v) == IF v.tag = "Ok" THEN v ELSE ConvErr(v.kind)

\* C35: underscores are ignored.  The conversion of a Decimal, Hex, Octal or
\* Binary token to any target type gives the value, or the kind of error,
\* that the conversion of the same literal without its '_' gives; and under
\* decimal.allow_underscores the text of a Float or Exponent token handed to
\* from_float_str has no '_', the result being that of the literal without
\* its '_'.
C35_UnderscoresIgnored ==
    val # NoVal =>
        LET bare == Strip(input)
            again == convert_number(cfg, [start |-> Position_new, end |-> EndOf(bare)],
                                    tok.sign, tok.notation,
                                    MemCharReader_new(bare, Byte.SP), cv.ty)
        IN IF tok.notation \in IntNotations
           THEN Outcome(val) = Outcome(again)
           ELSE cfg.decimal.allow_underscores =>
                    /\ \A i \in 1..Len(float_text(cfg, input)) :
                           float_text(cfg, input)[i] # Ch.us
                    /\ Outcome(val) = Outcome(again)

C35_Witness ==
    /\ val # NoVal /\ val.tag = "Ok"
    /\ \E i \in 1..Len(input) : input[i] = Ch.us
    /\ tok.notation \in {"Float", "Exponent"}
    /\ cfg.decimal.allow_underscores

(***************************************************************************)
(* is_at_start under the calls of a caller that reads the text itself.     *)
(*   val : the reader as it was before the last is_at_start                *)
(***************************************************************************)
\* NumberParser::is_at_start: hex, octal, binary, decimal, up to the first
\* that answers true or fails
RECURSIVE any_is_at_start(_, _)
any_is_at_start(ns, rd) ==
    IF ns = <<>> THEN [r |-> rd, res |-> Bool(FALSE)]
    ELSE LET at == is_at_start(Head(ns), rd)
         IN IF IsErr(at.res) \/ IsTrue(at.res) THEN at ELSE any_is_at_start(Tail(ns), at.r)

NumberParser_is_at_start(np, rd) ==
    any_is_at_start(<<np.hex, np.octal, np.binary, np.decimal>>, rd)

MaxStart == 1

StartInputs ==
    {s \o p \o b : s \in Signs, p \in Prefixes, b \in SeqsUpTo({Ch.d1, Ch.A, Ch.sp}, MaxStart)}

InitStart ==
    /\ input \in StartInputs
    /\ cfg = NumberParser_new
    /\ r = MemCharReader_new(input, Byte.SP)
    /\ out = Call("new", None, Position_new)
    /\ val = NoVal
    /\ tok = NoTok /\ seen = {} /\ cv = NoCv /\ diags = NoDiags /\ added = <<>>

StartNextChar ==
    /\ r.pos.offset < Len(input)
    /\ LET n == next_char(r)
       IN /\ r' = n.r
          /\ out' = Call("next_char", n.res, position(n.r))
    /\ UNCHANGED <<input, cfg, tok, seen, cv, val, diags, added>>

StartPeekChar ==
    /\ LET n == peek_char(r, 0)
       IN /\ r' = n.r
          /\ out' = Call("peek_char", n.res, position(n.r))
    /\ UNCHANGED <<input, cfg, tok, seen, cv, val, diags, added>>

NotationIsAtStart ==
    /\ \E n \in {cfg.hex, cfg.octal, cfg.binary, cfg.decimal} :
         LET at == is_at_start(n, r)
         IN /\ r' = at.r
            /\ out' = Call("is_at_start", at.res, position(at.r))
    /\ val' = [before |-> r]
    /\ UNCHANGED <<input, cfg, tok, seen, cv, diags, added>>

ParserIsAtStart ==
    /\ LET at == NumberParser_is_at_start(cfg, r)
       IN /\ r' = at.r
          /\ out' = Call("parser_is_at_start", at.res, position(at.r))
    /\ val' = [before |-> r]
    /\ UNCHANGED <<input, cfg, tok, seen, cv, diags, added>>

NextStart == StartNextChar \/ StartPeekChar \/ NotationIsAtStart \/ ParserIsAtStart

SpecStart == InitStart /\ [][NextStart]_vars

\* C36 (as claimed): is_at_start leaves the reader observationally unchanged.
\* After a call that did not fail, of one notation or of the parser, position()
\* is what it was before, and next_char, skip_chars and peek_char return what
\* they return from the reader as it was before the call, also when the call
\* looked past a sign.
C36_IsAtStartLeavesReader ==
    (out.op \in {"is_at_start", "parser_is_at_start"} /\ ~IsErr(out.res)) =>
        LET b == val.before
        IN /\ position(r) = position(b)
           /\ next_char(r).res = next_char(b).res
           /\ position(skip_chars(r, 1).r) = position(skip_chars(b, 1).r)
           /\ \A k \in 0..MaxLook : peek_char(r, k).res = peek_char(b, k).res

(***************************************************************************)
(* ResultExt::add_err on the results a caller hands to it.                 *)
(*   val : the collector as it was before the last add_err                 *)
(***************************************************************************)
ResultOk(v) == [tag |-> "Ok", v |-> v]
ResultErr(e) == [tag |-> "Err", err |-> e]

Panicked == [tag |-> "Panic"]

\* add_err: Ok(value) is passed on; Err(err) goes to add_diag, whose result
\* is unwrapped as an error, a panic when it is Ok(())
add_err(self, ds) ==
    IF self.tag = "Ok" THEN [d |-> ds, res |-> DiagsOk(self.v)]
    ELSE LET a == add_diag(ds, self.err)
         IN [d |-> a.d, res |-> IF a.res.tag = "Err" THEN a.res ELSE Panicked]

AddErr ==
    /\ Len(added) < MaxDiags
    /\ \E self \in {ResultOk(v) : v \in ResultValues} \cup {ResultErr(e) : e \in DiagSet} :
         LET a == add_err(self, diags)
         IN /\ diags' = a.d
            /\ out' = DiagCall("add_err", self, a.res)
            /\ added' = IF self.tag = "Err" THEN Append(added, self.err) ELSE added
    /\ val' = [before |-> diags]
    /\ UNCHANGED <<input, r, seen, cfg, tok, cv>>

\* a panic ends the program
Running == out.res # Panicked

NextAddErr == (Running /\ AddDiag) \/ (Running /\ AddErr)

SpecAddErr == InitDiags /\ [][NextAddErr]_vars

\* C37 (as claimed): add_err never panics.  Ok(v) comes back as Ok(v) with the
\* collector as it was; Err(e), whatever the severity of e, is recorded as the
\* last diagnostic of the collector and comes back as Err(Errors).
C37_AddErrNeverPanics ==
    out.op = "add_err" =>
        /\ out.res # Panicked
        /\ out.arg.tag = "Ok" => (out.res = DiagsOk(out.arg.v) /\ diags = val.before)
        /\ out.arg.tag = "Err" =>
               /\ diags.diags = Append(val.before.diags, out.arg.err)
               /\ out.res.tag = "Err"

(***************************************************************************)
(* parse_number on a reader the caller has moved into the text: a number   *)
(* after a space, a line feed, or both.                                    *)
(***************************************************************************)
MaxSpanBody == 2

SpanLeads == {<<>>, <<Ch.sp>>, <<Byte.LF>>, <<Ch.sp, Byte.LF>>}

SpanInputs ==
    {l \o g \o p \o b : l \in SpanLeads, g \in Signs, p \in Prefixes,
                        b \in SeqsUpTo({Ch.d1, Ch.A, Ch.dot, Ch.e}, MaxSpanBody)}

InitSpan ==
    /\ input \in SpanInputs
    /\ cfg = NumberParser_new
    /\ r = MemCharReader_new(input, Byte.SP)
    /\ tok = NoTok
    /\ out = Call("new", None, Position_new)
    /\ seen = {Position_new} /\ cv = NoCv /\ val = NoVal
    /\ diags = NoDiags /\ added = <<>>

\* the caller reads up to the number
ReadLead == tok = NoTok /\ NextChar

NextSpan == ReadLead \/ ParseNumber \/ NumPeekAfter

SpecSpan == InitSpan /\ [][NextSpan]_vars

\* C38: the span of a token.  In every successful parse_number call the
\* token's span starts at the position the reader had at the call, ends at
\* the position the reader has on return, and its end offset is greater than
\* its start offset; for every notation, also when a trailing dot was handed
\* back.
C38_TokenSpan ==
    [][(tok = NoTok /\ tok'.tag = "Ok") =>
          /\ tok'.span.start = position(r)
          /\ tok'.span.end = position(r')
          /\ tok'.span.end.offset > tok'.span.start.offset]_vars

C38_Witness ==
    /\ out.op = "parse_number" /\ tok.tag = "Ok"
    /\ tok.span.start.offset > 0 /\ tok.span.start.line > 0
    /\ tok.span.end = position(r)
    /\ tok.span.end.offset < Len(input) /\ input[tok.span.end.offset + 1] = Ch.dot

(***************************************************************************)
(* The bounds of a snippet, under SpecQuote.                               *)
(***************************************************************************)
\* the offsets of the line feeds of a text, in order
LineFeeds(bs) == SelectSeq([i \in 1..Len(bs) |-> IF bs[i] = Sym.lf THEN i - 1 ELSE Len(bs)],
                           LAMBDA o : o < Len(bs))

\* the offset of the first byte of line n (from 0), and the offset of the
\* line feed that ends it, the length of the text when there is none
LineStart(bs, n) == IF n = 0 THEN 0 ELSE LineFeeds(bs)[n] + 1
LineEnd(bs, n) == IF n < Len(LineFeeds(bs)) THEN LineFeeds(bs)[n + 1] ELSE Len(bs)

Consistent(bs, p) == p.offset <= Len(bs) /\ p.line = LinesBefore(bs, p.offset)

\* C40: the bounds of the snippet of Quote::new.  For positions start <= end
\* consistent with the buffer and every lines_before and lines_after that
\* give the quote: the snippet begins at the first byte of line
\* max(0, start.line - lines_before) and ends just before the line feed that
\* ends line end.line + lines_after, or at the end of the buffer; line() is
\* the number of the snippet's first line, and line() plus the line feeds
\* between the snippet's start and start.offset is start.line.
C40_SnippetBounds ==
    (/\ val # NoVal
     /\ Consistent(input, val.span.start) /\ Consistent(input, val.span.end)) =>
        \A c \in Contexts :
            val = quote(cfg.path, r, val.span.start, val.span.end, c[1], c[2], Msg) =>
                LET first == IF val.span.start.line > c[1] THEN val.span.start.line - c[1] ELSE 0
                    last == val.span.end.line + c[2]
                IN /\ val.offset = LineStart(input, first)
                   /\ val.source = from_utf8_lossy(SubSeq(input, LineStart(input, first) + 1,
                                                          LineEnd(input, last)))
                   /\ val.line = first
                   /\ val.line + Cardinality({i \in (val.offset + 1)..val.span.start.offset :
                                                  input[i] = Sym.lf}) = val.span.start.line

C40_Witness ==
    /\ val # NoVal
    /\ Consistent(input, val.span.start) /\ Consistent(input, val.span.end)
    /\ val.line > 0 /\ val.line < val.span.start.line
    /\ val.offset = LineStart(input, val.line)
    /\ val.offset + Len(val.source) < Len(input)

====
